---------------------------- MODULE Spec2Model ----------------------------
(***************************************************************************)
(* The data-acquisition layer (FDICAPIClient, BankDataRepository), the     *)
(* metrics calculator (BankMetricsCalculator) and the service seam         *)
(* (BankDataService) of src/app.py, as a state machine.                    *)
(*                                                                         *)
(* Python values are modelled as follows.  A dict is a record              *)
(* [order, at]: the insertion order of its keys and the key -> value map.  *)
(* A JSON text is a sequence of members <<key, value>>.  A date string     *)
(* YYYYMMDD is the integer with those digits (zero-padded strings of equal *)
(* length compare like their numbers).  An HTTP exchange is its outcome:   *)
(* a transport failure or the JSON body the server sent.                   *)
(***************************************************************************)
EXTENDS Integers, Sequences, FiniteSets, TLC

\* ------------------------------------------------------------------ bounds
\* Longest roster passed to fetch_data.
MaxRoster == 3
\* Number of successive fetch_data calls on one cache directory.
MaxCalls == 2
\* Longest roster of the calls that follow one another.
MaxShortRoster == 1

\* ------------------------------------------------------- program constants
\* max_retries of fetch_data.
max_retries == 3

\* The first three entries of BANK_INFO (the source lists nine).
BANK_INFO ==
    << [kind |-> "dict", cert |-> "33124", name |-> "Goldman Sachs Bank USA"],
       [kind |-> "dict", cert |-> "628", name |-> "JPMorgan Chase Bank, National Association"],
       [kind |-> "dict", cert |-> "3510", name |-> "Bank of America, National Association"] >>

BANK_NAME_MAPPING ==
    [n \in {"Goldman Sachs Bank USA", "JPMorgan Chase Bank, National Association",
            "Bank of America, National Association"} |->
        CASE n = "Goldman Sachs Bank USA" -> "Goldman Sachs"
          [] n = "JPMorgan Chase Bank, National Association" -> "JPMorgan Chase"
          [] OTHER -> "Bank of America"]

\* ---------------------------------------------------------- evaluation once
\* F(v) and F(v, w), with v and w evaluated once, as a Python expression
\* evaluates the value bound to a name once.
Once(F(_), v) == CHOOSE r \in {F(x) : x \in {v}} : TRUE

Once2(F(_, _), v, w) == CHOOSE r \in {F(x, y) : x \in {v}, y \in {w}} : TRUE

\* ------------------------------------------------------------ Python dicts
EmptyDict == [order |-> << >>, at |-> << >>]

DictKeys(d) == {d.order[i] : i \in DOMAIN d.order}

DictHas(d, k) == k \in DOMAIN d.at

\* d[k] = v: a new key is appended to the insertion order, an existing key
\* keeps its place.
DictSet(d, k, v) ==
    Once(LAMBDA dict : [order |-> IF DictHas(dict, k) THEN dict.order
                                  ELSE Append(dict.order, k),
                        at |-> (k :> v) @@ dict.at],
         d)

\* bool(d) of a dict.
Truthy(d) == Len(d.order) > 0

\* --------------------------------------------------------------- the cache
\* The characters of a date string (the model holds YYYYMMDD as a number).
RECURSIVE Digits(_)
Digits(n) == IF n < 10 THEN << n >> ELSE Digits(n \div 10) \o << n % 10 >>

\* (mutant) one file for the whole directory.
PathOfDirectory(start_date, end_date) == << "data_cache/", "bank_data", ".json" >>

\* get_cache_path: the file name holds the characters of both date strings,
\* joined by an underscore.
get_cache_path(start_date, end_date) ==
    << "data_cache/", "bank_data_" >> \o Digits(start_date) \o << "_" >>
        \o Digits(end_date) \o << ".json" >>

\* A cache file: absent, a text json.load rejects, bytes that are no text in
\* the encoding open(cache_path, 'r') reads with, or a JSON text.
NoFile == [kind |-> "absent"]
Garbage == [kind |-> "garbage"]
Undecodable == [kind |-> "undecodable"]
JsonFile(text) == [kind |-> "json", text |-> text]

\* (mutant) a dump that stops one member early.
RECURSIVE DumpMembersButLast(_, _)
DumpMembersButLast(d, i) ==
    IF i >= Len(d.order) THEN << >>
    ELSE << <<d.order[i], d.at[d.order[i]]>> >> \o DumpMembersButLast(d, i + 1)

\* json.dump of a dict: one member per key, in insertion order.
RECURSIVE DumpMembers(_, _)
DumpMembers(d, i) ==
    IF i > Len(d.order) THEN << >>
    ELSE << <<d.order[i], d.at[d.order[i]]>> >> \o DumpMembers(d, i + 1)

json_dump(data) ==
    << <<"institutions_data", DumpMembers(data.institutions_data, 1)>>,
       <<"financials_data", DumpMembers(data.financials_data, 1)>> >>

\* json.load of an object: the members are inserted in order into a dict.
RECURSIVE LoadMembers(_, _)
LoadMembers(members, n) ==
    IF n = 0 THEN EmptyDict
    ELSE DictSet(LoadMembers(members, n - 1), members[n][1], members[n][2])

json_load(text) ==
    LET top == LoadMembers(text, Len(text))
    IN [institutions_data |->
            LoadMembers(top.at["institutions_data"], Len(top.at["institutions_data"])),
        financials_data |->
            LoadMembers(top.at["financials_data"], Len(top.at["financials_data"]))]

\* The exceptions the read and the write can meet.
NoError == "none"
IOError == "IOError"
JSONDecodeError == "JSONDecodeError"
UnicodeDecodeError == "UnicodeDecodeError"

\* The value None and a raised exception, as results of a call.
None == [kind |-> "None"]
Raised(e) == [kind |-> "raised", exc |-> e]
Returned(v) == [kind |-> "value", value |-> v]

\* load_cached_data: the except clause of the read.
LoadCaught == {JSONDecodeError, IOError}

\* What open() and json.load(f) raise on file f, where io is the error the
\* operating system reports (NoError when there is none): reading decodes
\* the bytes, then the text is parsed.
ReadError(f, io) ==
    IF io # NoError THEN io
    ELSE IF f.kind = "undecodable" THEN UnicodeDecodeError
    ELSE IF f.kind = "garbage" THEN JSONDecodeError
    ELSE NoError

\* load_cached_data(start, end) on file f.
load_cached_data(f, io) ==
    IF f.kind = "absent" THEN None
    ELSE LET exc == ReadError(f, io)
         IN IF exc = NoError THEN Returned(json_load(f.text))
            ELSE IF exc \in LoadCaught THEN None
            ELSE Raised(exc)

\* How a write can end: written, open() failed (the file is as before), or
\* the write failed after open() truncated the file.
WriteOutcomes == {"ok", "open_fails", "write_fails"}

\* The exception a write that ends as w meets.
WriteError(w) == IF w = "ok" THEN NoError ELSE IOError

\* save_to_cache: the except clause of the write.
SaveCaught == {IOError}

\* (mutant) a save_to_cache that writes nothing.
SaveNothing(f, data, w) == f

\* save_to_cache: the file after the call.
save_to_cache(f, data, w) ==
    CASE w = "ok" -> JsonFile(json_dump(data))
      [] w = "open_fails" -> f
      [] OTHER -> Garbage


\* ------------------------------------------------------- the remote client
\* What an HTTP exchange can end in: an exception of requests.get,
\* raise_for_status or response.json, or the parsed JSON body.
Timeout == "Timeout"
ConnectionError == "ConnectionError"
HTTPError == "HTTPError"
InvalidJSON == "requests.JSONDecodeError"
AttributeError == "AttributeError"

Failure(e) == [kind |-> "error", exc |-> e]
Response(body) == [kind |-> "response", body |-> body]

\* JSON bodies: an object with or without a 'data' member, or a value that
\* is no object (an array).
JsonObject(list) == [kind |-> "object", data |-> list]
JsonObjectNoData == [kind |-> "object"]
JsonArray == [kind |-> "array"]

\* Items of a 'data' list: {"data": {...}} envelopes, dicts without 'data',
\* and values that are no dict.
Envelope(fields) == [kind |-> "dict", data |-> fields]
DictNoData == [kind |-> "dict"]
NotADict == [kind |-> "other"]

\* (mutant) an except clause for connection problems only.
ConnectionProblemsOnly == {Timeout, ConnectionError}

\* The classes requests.exceptions.RequestException covers.
RequestException == {Timeout, ConnectionError, HTTPError, InvalidJSON}

\* get_data: the except clause turns a RequestException into the empty
\* envelope; any other exception leaves the method.
get_data(o) ==
    IF o.kind = "error"
    THEN IF o.exc \in RequestException THEN Returned(JsonObject(<< >>))
         ELSE Raised(o.exc)
    ELSE Returned(o.body)

\* data.get('data', []) of get_institutions and get_financials: a body
\* that is no dict has no get().
DataGet(r) ==
    IF r.kind = "raised" THEN r
    ELSE IF r.value.kind # "object" THEN Raised(AttributeError)
    ELSE IF "data" \in DOMAIN r.value THEN Returned(r.value.data)
    ELSE Returned(<< >>)

get_institutions(o) == DataGet(get_data(o))

get_financials(o) == DataGet(get_data(o))

\* ------------------------------------------------------------- the roster
\* Roster items: a dict with 'cert', a bank name, or anything else.
StrItem(n) == [kind |-> "str", name |-> n]
DictItemNoCert(n) == [kind |-> "dict", name |-> n]

RosterPool ==
    BANK_INFO \o << StrItem("Truist Bank"), DictItemNoCert("Capital One") >>

\* The rosters passed to fetch_data: the runs of at most MaxRoster items at
\* the head and at the tail of RosterPool; the empty roster and (for
\* MaxRoster >= 3) BANK_INFO are among them.
Rosters ==
    {SubSeq(RosterPool, 1, n) : n \in 0..MaxRoster} \cup
    {SubSeq(RosterPool, Len(RosterPool) - n + 1, Len(RosterPool)) : n \in 1..MaxRoster}

\* The rosters of the calls that follow one another on one cache directory.
ShortRosters == {r \in Rosters : Len(r) <= MaxShortRoster}

IsByName(bank_item) == bank_item.kind = "str"
IsByCert(bank_item) == bank_item.kind = "dict" /\ "cert" \in DOMAIN bank_item

\* The institution record the remote source holds for a roster item.
RemoteInstitution(bank_item) ==
    IF IsByName(bank_item) THEN [NAME |-> bank_item.name, CERT |-> "9846"]
    ELSE [NAME |-> bank_item.name, CERT |-> bank_item.cert]

TransportFailures ==
    {Failure(e) : e \in {Timeout, ConnectionError, HTTPError, InvalidJSON}}

\* The outcomes of one institution lookup.
InstOutcomes(bank_item) ==
    TransportFailures \cup
    {Response(JsonArray), Response(JsonObjectNoData), Response(JsonObject(<< >>)),
     Response(JsonObject(<< NotADict >>)), Response(JsonObject(<< DictNoData >>)),
     Response(JsonObject(<< Envelope([CERT |-> "0"]) >>)),
     Response(JsonObject(<< Envelope(RemoteInstitution(bank_item)) >>))}

\* Report dates of the period records the remote source holds.
RemoteDates == << 20181231, 20190331 >>

\* The outcomes of one financial-history lookup.
FinOutcomes ==
    TransportFailures \cup
    {Response(JsonArray), Response(JsonObject(<< >>)),
     Response(JsonObject(<< Envelope([REPDTE |-> RemoteDates[2]]), NotADict,
                            Envelope([REPDTE |-> RemoteDates[1]]) >>))}

\* [f['data'] for f in financials if isinstance(f, dict) and 'data' in f]
RECURSIVE DataOf(_)
DataOf(financials) ==
    IF financials = << >> THEN << >>
    ELSE LET f == Head(financials)
         IN (IF f.kind = "dict" /\ "data" \in DOMAIN f THEN << f.data >> ELSE << >>)
            \o DataOf(Tail(financials))


\* ------------------------------------------------------ fallback synthesis
\* pd.date_range(start, end, freq='Q'): the quarter-end dates in [start, end].
QuarterEnds(year) ==
    << year * 10000 + 331, year * 10000 + 630, year * 10000 + 930, year * 10000 + 1231 >>

RECURSIVE QuartersFrom(_, _, _)
QuartersFrom(year, start, end) ==
    IF year > end \div 10000 THEN << >>
    ELSE SelectSeq(QuarterEnds(year), LAMBDA d : start <= d /\ d <= end)
         \o QuartersFrom(year + 1, start, end)

date_range(start, end) == QuartersFrom(start \div 10000, start, end)

\* One record per quarter; the random amounts of a record are left out.
RECURSIVE FallbackRecords(_)
FallbackRecords(quarters) ==
    IF quarters = << >> THEN << >>
    ELSE << [REPDTE |-> Head(quarters)] >> \o FallbackRecords(Tail(quarters))

\* The loop of _generate_fallback_data over the banks of BANK_INFO.
RECURSIVE FallbackLoop(_, _, _)
FallbackLoop(n, start_date, end_date) ==
    IF n = 0 THEN [institutions_data |-> EmptyDict, financials_data |-> EmptyDict]
    ELSE LET sofar == FallbackLoop(n - 1, start_date, end_date)
             bank == BANK_INFO[n]
         IN [institutions_data |->
                 DictSet(sofar.institutions_data, bank.name,
                         [NAME |-> bank.name, CERT |-> bank.cert]),
             financials_data |->
                 DictSet(sofar.financials_data, bank.name,
                         FallbackRecords(date_range(start_date, end_date)))]

\* The dataset _generate_fallback_data builds (it saves it before returning).
generate_fallback_data(start_date, end_date) ==
    FallbackLoop(Len(BANK_INFO), start_date, end_date)


\* ------------------------------------------------------------ Python floats
\* A float is a rational n/d in lowest terms with d > 0, nan, or an
\* infinity of sign s.
RECURSIVE GCD(_, _)
GCD(a, b) == IF b = 0 THEN a ELSE Once(LAMBDA r : GCD(b, r), a % b)

Abs(n) == IF n < 0 THEN -n ELSE n

Num(n, d) ==
    Once2(LAMBDA p, q :
              Once(LAMBDA g : [kind |-> "num", n |-> (IF q < 0 THEN -1 ELSE 1) * (p \div g),
                               d |-> (IF q < 0 THEN -1 ELSE 1) * (q \div g)],
                   GCD(Abs(p), Abs(q))),
          n, d)

NaN == [kind |-> "nan"]
Inf(s) == [kind |-> "inf", s |-> s]
Zero == Num(0, 1)

Sign(x) == IF x.kind = "inf" THEN x.s ELSE IF x.n > 0 THEN 1 ELSE IF x.n < 0 THEN -1 ELSE 0

Neg(x) ==
    Once(LAMBDA a : CASE a.kind = "nan" -> NaN
                      [] a.kind = "inf" -> Inf(-a.s)
                      [] OTHER -> Num(-a.n, a.d),
         x)

\* a + b
Add(x, y) ==
    Once2(LAMBDA a, b :
              CASE a.kind = "nan" \/ b.kind = "nan" -> NaN
                [] a.kind = "inf" /\ b.kind = "inf" -> IF a.s = b.s THEN a ELSE NaN
                [] a.kind = "inf" -> a
                [] b.kind = "inf" -> b
                [] OTHER -> Num(a.n * b.d + b.n * a.d, a.d * b.d),
          x, y)

\* a - b
Sub(a, b) == Add(a, Neg(b))

\* a * b
Mul(x, y) ==
    Once2(LAMBDA a, b :
              CASE a.kind = "nan" \/ b.kind = "nan" -> NaN
                [] a.kind = "inf" \/ b.kind = "inf" ->
                      IF Sign(a) * Sign(b) = 0 THEN NaN ELSE Inf(Sign(a) * Sign(b))
                [] OTHER -> Num(a.n * b.n, a.d * b.d),
          x, y)

\* a / b, for b that is not zero (the code divides only by values above a
\* positive floor).
Div(x, y) ==
    Once2(LAMBDA a, b :
              CASE a.kind = "nan" \/ b.kind = "nan" -> NaN
                [] a.kind = "inf" /\ b.kind = "inf" -> NaN
                [] a.kind = "inf" -> Inf(a.s * Sign(b))
                [] b.kind = "inf" -> Zero
                [] OTHER -> Num(a.n * b.d, a.d * b.n),
          x, y)

\* a > b: every comparison with nan is false.
Gt(x, y) ==
    Once2(LAMBDA a, b :
              CASE a.kind = "nan" \/ b.kind = "nan" -> FALSE
                [] a.kind = "inf" /\ b.kind = "inf" -> a.s > b.s
                [] a.kind = "inf" -> a.s > 0
                [] b.kind = "inf" -> b.s < 0
                [] OTHER -> a.n * b.d > b.n * a.d,
          x, y)

\* math.isfinite
IsFinite(x) == x.kind = "num"

\* ---------------------------------------------------- values of raw fields
\* What json gives for a field of a period record: null (None), an int, a
\* float (json reads the literals NaN and Infinity), a bool, a string, an
\* int beyond the range of float, or a list.
JInt(n) == [kind |-> "int", n |-> n]
JFloat(x) == [kind |-> "float", x |-> x]
JBool(b) == [kind |-> "bool", b |-> b]
JStr(s) == [kind |-> "str", s |-> s]
JBigInt == [kind |-> "bigint"]
JList == [kind |-> "list"]

ValueError == "ValueError"
TypeError == "TypeError"
OverflowError == "OverflowError"

\* float(s) of a string: the numerals and the special names parse, any
\* other text raises ValueError.
FloatOfStr(s) ==
    CASE s = "1500" -> Returned(Num(1500, 1))
      [] s = "12.5" -> Returned(Num(25, 2))
      [] s = "nan" -> Returned(NaN)
      [] s = "inf" -> Returned(Inf(1))
      [] s = "-Infinity" -> Returned(Inf(-1))
      [] OTHER -> Raised(ValueError)

\* float(value), for a value that is not None.
float(value) ==
    CASE value.kind = "int" -> Returned(Num(value.n, 1))
      [] value.kind = "float" -> Returned(value.x)
      [] value.kind = "bool" -> Returned(Num(IF value.b THEN 1 ELSE 0, 1))
      [] value.kind = "str" -> FloatOfStr(value.s)
      [] value.kind = "bigint" -> Raised(OverflowError)
      [] OTHER -> Raised(TypeError)

\* safe_float: the except clause.
SafeFloatCaught == {ValueError, TypeError}

\* safe_float(value)
safe_float(value) ==
    IF value = None THEN Returned(Zero)
    ELSE Once(LAMBDA r : IF r.kind = "raised" /\ r.exc \in SafeFloatCaught
                         THEN Returned(Zero) ELSE r,
              float(value))

\* ------------------------------------------------------ metrics calculator
KeyError == "KeyError"

\* financial.get(field): None when the record has no such field.
Get(financial, field) == IF field \in DOMAIN financial THEN financial[field] ELSE None

\* The result of a call is an exception.
IsRaised(x) == "exc" \in DOMAIN x

\* sorted(financials, key=lambda x: x['REPDTE']): stable, ascending.
RECURSIVE InsertByDate(_, _)
InsertByDate(sorted, financial) ==
    IF sorted = << >> THEN << financial >>
    ELSE IF sorted[Len(sorted)].REPDTE <= financial.REPDTE
         THEN Append(sorted, financial)
         ELSE Append(Once(LAMBDA before : InsertByDate(before, financial),
                          SubSeq(sorted, 1, Len(sorted) - 1)),
                     sorted[Len(sorted)])

RECURSIVE SortedPrefix(_, _)
SortedPrefix(financials, n) ==
    IF n = 0 THEN << >>
    ELSE Once(LAMBDA sorted : InsertByDate(sorted, financials[n]),
              SortedPrefix(financials, n - 1))

\* (mutant) the records in the order of the input list.
AsGiven(financials) == financials

sorted_financials(financials) == SortedPrefix(financials, Len(financials))

\* _extract_basic_metrics: the columns filled by safe_float, each with the
\* field it reads, in the order of the dict literal.
BasicColumns ==
    << <<"Total Assets", "ASSET">>, <<"Total Deposits", "DEP">>,
       <<"Total Loans and Leases", "LNLSGR">>, <<"Net Loans and Leases", "LNLSNET">>,
       <<"Total Securities", "SC">>, <<"Real Estate Loans", "LNRE">>,
       <<"Loans to Residential Properties", "LNRERES">>, <<"Multifamily", "LNREMULT">>,
       <<"Farmland Real Estate Loans", "LNREAG">>,
       <<"Loans to Nonresidential Properties", "LNRENRES">>,
       <<"Owner-Occupied Nonresidential Properties Loans", "LNRENROW">>,
       <<"Non-OOC Nonresidential Properties Loans", "LNRENROT">>,
       <<"RE Construction and Land Development", "LNRECONS">>,
       <<"1-4 Family Residential Construction and Land Development Loans", "LNRECNFM">>,
       <<"Other Construction, All Land Development and Other Land Loans", "LNRECNOT">>,
       <<"Commercial Real Estate Loans not Secured by Real Estate", "LNCOMRE">>,
       <<"Commercial and Industrial Loans", "LNCI">>, <<"Agriculture Loans", "LNAG">>,
       <<"Credit Cards", "LNCRCD">>, <<"Consumer Loans", "LNCONOTH">>,
       <<"Allowance for Credit Loss", "LNATRES">>, <<"Past Due 30-89 Days", "P3ASSET">>,
       <<"Past Due 90+ Days", "P9ASSET">>, <<"Tier 1 (Core) Capital", "RBCT1J">>,
       <<"Total Charge-Offs", "DRLNLS">>, <<"Total Recoveries", "CRLNLS">>,
       <<"Total Loans and Leases Net Charge-Offs Quarterly", "NTLNLSQ">>,
       <<"Net Income", "NETINC">>, <<"Common Equity Tier 1 Before Adjustments", "CT1BADJ">>,
       <<"Bank Equity Capital", "EQ">>, <<"Perpetual Preferred Stock", "EQPP">>,
       <<"Net Interest Margin", "NIMY">>, <<"Earning Assets / Total Assets", "ERNASTR">>,
       <<"Nonperforming Assets / Total Assets", "NPERFV">>,
       <<"Assets Past Due 30-89 Days / Total Assets", "P3ASSETR">>,
       <<"Assets Past Due 90+ Days / Total Assets", "P9ASSETR">>,
       <<"Net Charge-Offs / Total Loans & Leases", "NTLNLSR">>,
       <<"Earnings Coverage of Net Loan Charge-Offs", "IDERNCVR">>,
       <<"Loan and Lease Loss Provision to Net Charge-Offs", "ELNANTR">>,
       <<"Loss Allowance / Total Loans & Leases", "LNATRESR">>,
       <<"Loss Allowance to Noncurrent Loans and Leases", "LNRESNCR">>,
       <<"Noncurrent Loans / Total Loans", "NCLNLSR">>,
       <<"Net Loans and Leases to Deposits", "LNLSDEPR">>,
       <<"Net Loans and Leases to Assets", "LNLSNTV">>, <<"Return on Assets", "ROA">>,
       <<"Return on Equity", "ROE">>, <<"Leverage (Core Capital) Ratio", "RBC1AAJ">>,
       <<"Total Risk-Based Capital Ratio", "RBCRWAJ">>, <<"Efficiency Ratio", "EEFFR">> >>

BasicNames == {BasicColumns[i][1] : i \in DOMAIN BasicColumns}

FieldOf ==
    [c \in BasicNames |->
        BasicColumns[CHOOSE i \in DOMAIN BasicColumns : BasicColumns[i][1] = c][2]]

\* _extract_basic_metrics: the row of one period record, or the exception
\* the first failing safe_float raises.
extract_basic_metrics(bank_name, financial) ==
    LET value(i) == safe_float(Get(financial, BasicColumns[i][2]))
        raising == {i \in DOMAIN BasicColumns : value(i).kind = "raised"}
    IN IF raising # {}
       THEN value(CHOOSE i \in raising : \A j \in raising : i <= j)
       ELSE [order |-> << "Bank", "Date" >>
                       \o [i \in DOMAIN BasicColumns |-> BasicColumns[i][1]],
             at |-> [c \in {"Bank", "Date"} \cup BasicNames |->
                        CASE c = "Bank" -> bank_name
                          [] c = "Date" -> Get(financial, "REPDTE")
                          [] OTHER -> safe_float(Get(financial, FieldOf[c])).value]]

\* pd.to_datetime('2019-01-01'), as a report date.
CECL_START == 20190101

\* (mutant) a capital base that ignores the report date: no transition amount.
CapitalBaseNoCecl(metrics, financial) ==
    << Zero, Add(metrics.at["Tier 1 (Core) Capital"], metrics.at["Allowance for Credit Loss"]) >>

\* _calculate_capital_base: (cecl_transition_amount, capital_base).  A
\* record without report date gives NaT, and NaT >= date is false.
calculate_capital_base(metrics, financial) ==
    LET ct1badj == metrics.at["Common Equity Tier 1 Before Adjustments"]
        eq == metrics.at["Bank Equity Capital"]
        eqpp == metrics.at["Perpetual Preferred Stock"]
        tier1_capital == metrics.at["Tier 1 (Core) Capital"]
        allowance_for_credit_loss == metrics.at["Allowance for Credit Loss"]
    IN IF "REPDTE" \in DOMAIN financial /\ financial.REPDTE >= CECL_START
       THEN LET cecl_transition_amount == Add(Sub(ct1badj, eq), eqpp)
            IN << cecl_transition_amount,
                  Sub(Add(tier1_capital, allowance_for_credit_loss), cecl_transition_amount) >>
       ELSE << Zero, Add(tier1_capital, allowance_for_credit_loss) >>

\* The floor of the capital base, and (x / capital_base) * 100.
CAPITAL_FLOOR == 1000000

Pct(x, base) == Mul(Div(x, base), Num(100, 1))

\* What the ratios are set to when the capital base is not above the floor.
RatioBelowFloor == None

\* _calculate_capital_ratios
calculate_capital_ratios(metrics, capital_base) ==
    IF Gt(capital_base, Num(CAPITAL_FLOOR, 1))
    THEN LET m1 == DictSet(metrics, "Real Estate Loans to Tier 1 + ACL",
                           Pct(metrics.at["Real Estate Loans"], capital_base))
             m2 == DictSet(m1, "RE Construction and Land Development to Tier 1 + ACL",
                           Pct(metrics.at["RE Construction and Land Development"],
                               capital_base))
             m3 == DictSet(m2, "C&I Loans to Tier 1 + ACL",
                           Pct(metrics.at["Commercial and Industrial Loans"], capital_base))
             m4 == DictSet(m3, "Agriculture Loans to Tier 1 + ACL",
                           Pct(metrics.at["Agriculture Loans"], capital_base))
             m5 == DictSet(m4, "Credit Cards to Tier 1 + ACL",
                           Pct(metrics.at["Credit Cards"], capital_base))
             commercial_re ==
                 Add(Add(Add(metrics.at["RE Construction and Land Development"],
                             metrics.at["Multifamily"]),
                         metrics.at["Loans to Nonresidential Properties"]),
                     metrics.at["Commercial Real Estate Loans not Secured by Real Estate"])
         IN DictSet(m5, "Commercial RE to Tier 1 + ACL", Pct(commercial_re, capital_base))
    ELSE LET m1 == DictSet(metrics, "Real Estate Loans to Tier 1 + ACL", RatioBelowFloor)
             m2 == DictSet(m1, "RE Construction and Land Development to Tier 1 + ACL",
                           RatioBelowFloor)
             m3 == DictSet(m2, "C&I Loans to Tier 1 + ACL", RatioBelowFloor)
             m4 == DictSet(m3, "Agriculture Loans to Tier 1 + ACL", RatioBelowFloor)
             m5 == DictSet(m4, "Commercial RE to Tier 1 + ACL", RatioBelowFloor)
         IN DictSet(m5, "Credit Cards to Tier 1 + ACL", RatioBelowFloor)

\* The number of positions _calculate_cre_growth_rate looks back, and the
\* floor of the old aggregate.
LOOKBACK == 12
CRE_FLOOR == 1000

\* LNRECONS + LNREMULT + LNRENROT + LNCOMRE of one record, each through
\* safe_float (which returned for these fields in _extract_basic_metrics).
non_owner_occupied_cre(financial) ==
    Add(Add(Add(safe_float(Get(financial, "LNRECONS")).value,
                safe_float(Get(financial, "LNREMULT")).value),
            safe_float(Get(financial, "LNRENROT")).value),
        safe_float(Get(financial, "LNCOMRE")).value)

\* (mutant) a lookback by date: the old record is the one dated three years
\* before the current one, if there is one.
GrowthByDate(metrics, sorted, i, current_financial) ==
    LET column == "Non-Owner Occupied CRE 3-Year Growth Rate"
        then == {j \in DOMAIN sorted : sorted[j].REPDTE = current_financial.REPDTE - 30000}
    IN IF then # {} /\ Gt(non_owner_occupied_cre(sorted[CHOOSE j \in then : TRUE]),
                          Num(CRE_FLOOR, 1))
       THEN DictSet(metrics, column,
                    Mul(Sub(Div(non_owner_occupied_cre(current_financial),
                                non_owner_occupied_cre(sorted[CHOOSE j \in then : TRUE])),
                            Num(1, 1)),
                        Num(100, 1)))
       ELSE DictSet(metrics, column, None)

\* _calculate_cre_growth_rate; i counts from 1 here, from 0 in the code.
calculate_cre_growth_rate(metrics, sorted, i, current_financial) ==
    LET column == "Non-Owner Occupied CRE 3-Year Growth Rate"
    IN IF i - 1 >= LOOKBACK
       THEN LET three_years_ago == sorted[i - LOOKBACK]
                old == non_owner_occupied_cre(three_years_ago)
            IN IF Gt(old, Num(CRE_FLOOR, 1))
               THEN DictSet(metrics, column,
                            Mul(Sub(Div(non_owner_occupied_cre(current_financial), old),
                                    Num(1, 1)),
                                Num(100, 1)))
               ELSE DictSet(metrics, column, None)
       ELSE DictSet(metrics, column, None)

\* The floor of the allowance for credit loss.
ALLOWANCE_FLOOR == 1000

\* (mutant) a charge-off ratio that is None below the floor.
ChargeOffBelowFloorNone == None

\* What the charge-off ratio is set to when the allowance is not above the floor.
ChargeOffBelowFloor == Zero

\* _calculate_charge_off_metrics
calculate_charge_off_metrics(metrics) ==
    IF Gt(metrics.at["Allowance for Credit Loss"], Num(ALLOWANCE_FLOOR, 1))
    THEN DictSet(metrics, "Net Charge-Offs / Allowance for Credit Loss",
                 Mul(Div(metrics.at["Total Loans and Leases Net Charge-Offs Quarterly"],
                         metrics.at["Allowance for Credit Loss"]),
                     Num(100, 1)))
    ELSE DictSet(metrics, "Net Charge-Offs / Allowance for Credit Loss", ChargeOffBelowFloor)

\* The body of the inner loop of calculate_metrics: the row of the record
\* at position i, or the exception raised on the way.
MetricsRow(bank_name, sorted, i) ==
    Once2(LAMBDA financial, metrics :
              IF IsRaised(metrics) THEN metrics
              ELSE Once(LAMBDA capital :
                     Once(LAMBDA m1 :
                       Once(LAMBDA m2 :
                         Once(LAMBDA m3 : calculate_charge_off_metrics(m3),
                              calculate_cre_growth_rate(m2, sorted, i, financial)),
                         calculate_capital_ratios(m1, capital[2])),
                       DictSet(metrics, "CECL Transition Amount", capital[1])),
                     calculate_capital_base(metrics, financial)),
          sorted[i], extract_basic_metrics(bank_name, sorted[i]))

\* The inner loop of calculate_metrics: the rows of one bank.
RECURSIVE BankRows(_, _, _)
BankRows(bank_name, sorted, i) ==
    IF i > Len(sorted) THEN << >>
    ELSE << MetricsRow(bank_name, sorted, i) >> \o BankRows(bank_name, sorted, i + 1)

\* The outer loop of calculate_metrics, over financials_data.items().
RECURSIVE AllMetrics(_, _)
AllMetrics(financials_data, n) ==
    IF n = 0 THEN << >>
    ELSE LET bank_name == financials_data.order[n]
         IN AllMetrics(financials_data, n - 1)
            \o Once(LAMBDA sorted : BankRows(bank_name, sorted, 1),
                    sorted_financials(financials_data.at[bank_name]))

all_metrics(financials_data) == AllMetrics(financials_data, Len(financials_data.order))

\* pd.DataFrame(list of dicts): the columns are the keys in the order of
\* their first appearance; a row has None where its dict has no such key.
RECURSIVE ColumnsOf(_, _)
ColumnsOf(dicts, n) ==
    IF n = 0 THEN << >>
    ELSE Once(LAMBDA before :
                  Once(LAMBDA seen : before \o SelectSeq(dicts[n].order, LAMBDA c : c \notin seen),
                       {before[i] : i \in DOMAIN before}),
              ColumnsOf(dicts, n - 1))

DataFrame(dicts) ==
    Once(LAMBDA columns :
             [columns |-> columns,
              rows |-> [i \in DOMAIN dicts |->
                          [c \in {columns[j] : j \in DOMAIN columns} |->
                              IF c \in DOMAIN dicts[i].at THEN dicts[i].at[c] ELSE None]]],
         ColumnsOf(dicts, Len(dicts)))

\* (mutant) no sort: the rows as they were appended.
NotSorted(rows) == {rows}

\* df.sort_values('Date'): the default sort is not stable, so rows of equal
\* date come out in any order.  The arrangements of the positions in S,
\* ascending by the date at the position.
RECURSIVE Arrangements(_, _)
Arrangements(dates, S) ==
    IF S = {} THEN {<< >>}
    ELSE LET first == {i \in S : \A j \in S : dates[i] <= dates[j]}
         IN UNION {Once(LAMBDA rest : {<< i >> \o t : t \in Arrangements(dates, rest)},
                        S \ {i}) : i \in first}

sort_values(rows) ==
    Once(LAMBDA dates :
             {[k \in DOMAIN rows |-> rows[take[k]]] : take \in Arrangements(dates, DOMAIN rows)},
         [i \in DOMAIN rows |-> rows[i].Date])

\* calculate_metrics: the results it can end in.  A record without REPDTE
\* makes the sort key raise KeyError; an exception of a row leaves the
\* method; pd.DataFrame([]) has no 'Date' column, so df['Date'] raises
\* KeyError when there is no row.
calculate_metrics(financials_data) ==
    IF \E k \in DictKeys(financials_data) :
          \E i \in DOMAIN financials_data.at[k] :
             "REPDTE" \notin DOMAIN financials_data.at[k][i]
    THEN {Raised(KeyError)}
    ELSE Once(LAMBDA dicts :
                  LET raising == {i \in DOMAIN dicts : IsRaised(dicts[i])}
                  IN IF raising # {}
                     THEN {dicts[CHOOSE i \in raising : \A j \in raising : i <= j]}
                     ELSE IF dicts = << >> THEN {Raised(KeyError)}
                     ELSE Once(LAMBDA df :
                                   Once(LAMBDA rows :
                                            {Returned([df EXCEPT !.rows = t]) :
                                                t \in sort_values(rows)},
                                        df.rows),
                               DataFrame(dicts)),
              all_metrics(financials_data))

\* ------------------------------------------------------------- the service
\* metrics_df['Bank'].map(lambda x: BANK_NAME_MAPPING.get(x, x))
MapBank(table) ==
    [i \in DOMAIN table |->
        [table[i] EXCEPT !.Bank = IF @ \in DOMAIN BANK_NAME_MAPPING
                                  THEN BANK_NAME_MAPPING[@] ELSE @]]

\* self.repository.dollar_format_metrics
dollar_format_metrics ==
    << "Total Assets", "Total Deposits", "Total Loans and Leases", "Net Loans and Leases",
       "Total Securities", "Real Estate Loans", "Loans to Residential Properties",
       "Multifamily", "Farmland Real Estate Loans", "Loans to Nonresidential Properties",
       "Owner-Occupied Nonresidential Properties Loans",
       "Non-OOC Nonresidential Properties Loans", "RE Construction and Land Development",
       "1-4 Family Residential Construction and Land Development Loans",
       "Other Construction, All Land Development and Other Land Loans",
       "Commercial Real Estate Loans not Secured by Real Estate",
       "Commercial and Industrial Loans", "Agriculture Loans", "Credit Cards",
       "Consumer Loans", "Allowance for Credit Loss", "Past Due 30-89 Days",
       "Past Due 90+ Days", "Tier 1 (Core) Capital", "Total Charge-Offs", "Total Recoveries",
       "Net Income", "Total Loans and Leases Net Charge-Offs Quarterly",
       "Common Equity Tier 1 Before Adjustments", "Bank Equity Capital",
       "CECL Transition Amount", "Perpetual Preferred Stock" >>

\* metric_order of get_metrics_data
metric_order ==
    << "Bank", "Date", "Real Estate Loans to Tier 1 + ACL",
       "RE Construction and Land Development to Tier 1 + ACL", "Commercial RE to Tier 1 + ACL",
       "Non-Owner Occupied CRE 3-Year Growth Rate", "C&I Loans to Tier 1 + ACL",
       "Agriculture Loans to Tier 1 + ACL", "Credit Cards to Tier 1 + ACL",
       "Net Charge-Offs / Allowance for Credit Loss", "Net Charge-Offs / Total Loans & Leases",
       "Earnings Coverage of Net Loan Charge-Offs",
       "Loan and Lease Loss Provision to Net Charge-Offs",
       "Loss Allowance / Total Loans & Leases",
       "Loss Allowance to Noncurrent Loans and Leases", "Nonperforming Assets / Total Assets",
       "Assets Past Due 30-89 Days / Total Assets", "Assets Past Due 90+ Days / Total Assets",
       "Noncurrent Loans / Total Loans", "Net Loans and Leases to Deposits",
       "Net Loans and Leases to Assets", "Return on Assets", "Return on Equity",
       "Leverage (Core Capital) Ratio", "Total Risk-Based Capital Ratio", "Efficiency Ratio",
       "Earning Assets / Total Assets", "Net Interest Margin" >>
    \o dollar_format_metrics

\* (mutant) the columns left in the order the calculator gave them.
KeepOrder(df) == df

\* metrics_df[available_columns + extra_columns]
Reorder(df) ==
    Once(LAMBDA has :
           Once(LAMBDA available_columns :
                  Once(LAMBDA available :
                         [df EXCEPT !.columns =
                             available_columns
                             \o SelectSeq(df.columns, LAMBDA col : col \notin available)],
                       {available_columns[i] : i \in DOMAIN available_columns}),
                SelectSeq(metric_order, LAMBDA col : col \in has)),
         {df.columns[i] : i \in DOMAIN df.columns})

\* pd.DataFrame()
EmptyFrame == [columns |-> << >>, rows |-> << >>]

\* get_metrics_data after fetch_data returned data: the results it can end in.
get_metrics_data(data) ==
    IF ~Truthy(data.institutions_data) THEN {Returned(EmptyFrame)}
    ELSE {IF r.kind = "raised" THEN r
          ELSE Returned(Once(LAMBDA metrics_df : Reorder(metrics_df),
                             [r.value EXCEPT !.rows = MapBank(@)])) :
            r \in calculate_metrics(data.financials_data)}


\* ------------------------------------------------------------------- state
\* The (start_date, end_date) pairs fetch_data is called with: the second
\* range lies inside the first and holds no quarter end.
Keys == { <<20181001, 20190331>>, <<20190101, 20190215>> }

CachePaths == {get_cache_path(k[1], k[2]) : k \in Keys}

VARIABLES
    cache,              \* the files of CACHE_DIR, by path
    pc,                 \* where the running call stands
    calls,              \* calls made so far
    caller,             \* "direct": fetch_data; "service": get_metrics_data
    bank_info,          \* fetch_data's arguments
    start_date,
    end_date,
    retry_count,        \* fetch_data's locals
    idx,                \* position of bank_item in bank_info
    institutions_data,
    financials_data,
    api_failures,
    bank_data,
    result,             \* what fetch_data returned (or raised)
    metrics,            \* the results get_metrics_data can end in
    \* history of the running call, for stating the claims
    path,               \* "hit", "live" or "fallback"
    inst_calls,         \* get_institutions calls
    fin_calls,          \* get_financials calls
    cache_writes,       \* save_to_cache calls
    load_error,         \* the exception the cache read met
    write_outcome,      \* how the cache write ended
    no_match,           \* lookups that matched nothing, this attempt
    outage,             \* every remote call so far failed at the transport level
    written,            \* per path, the dataset last written to it
    \* the calculator on its own: its argument and what it returned
    calc_in,
    calc_out,
    \* the remote client on its own: the request and what each method returned
    client_req,
    client_out,
    \* the calculator's methods on their own: the call and what it returned
    unit_in,
    unit_out,
    \* two processes on one uncached key: the cache file and where each stands
    race

locals == << retry_count, idx, institutions_data, financials_data, api_failures, bank_data >>
args == << caller, bank_info, start_date, end_date >>
history == << path, inst_calls, fin_calls, cache_writes, load_error, write_outcome,
              no_match, outage >>
calc == << calc_in, calc_out >>
client == << client_req, client_out >>
unit == << unit_in, unit_out >>
apart == << calc, client, unit, race >>
repository == << cache, pc, calls, args, locals, result, metrics, history, written >>
vars == << repository, apart >>

NotCalled == [kind |-> "pending"]

\* What the repository can find at a cache path when it is constructed:
\* nothing, a file cut short by a failed write (SpecCache reaches both), or
\* a file whose bytes were damaged.
LeftBehind == {NoFile, Garbage, Undecodable}

InitLocals ==
    /\ written = [p \in CachePaths |-> None]
    /\ pc = "idle"
    /\ calls = 0
    /\ caller = "direct"
    /\ bank_info = << >>
    /\ start_date = 0
    /\ end_date = 0
    /\ retry_count = 0
    /\ idx = 1
    /\ institutions_data = EmptyDict
    /\ financials_data = EmptyDict
    /\ api_failures = 0
    /\ bank_data = None
    /\ result = NotCalled
    /\ metrics = {}
    /\ path = "none"
    /\ inst_calls = 0
    /\ fin_calls = 0
    /\ cache_writes = 0
    /\ load_error = NoError
    /\ write_outcome = "none"
    /\ no_match = 0
    /\ outage = TRUE

InitRepository ==
    /\ cache = [p \in CachePaths |-> NoFile]
    /\ InitLocals

InitCalcIdle ==
    /\ calc_in = EmptyDict
    /\ calc_out = NotCalled

InitClientIdle ==
    /\ client_req = NotCalled
    /\ client_out = NotCalled

InitUnitIdle ==
    /\ unit_in = NotCalled
    /\ unit_out = NotCalled

InitRaceIdle == race = NotCalled

InitApart == InitCalcIdle /\ InitClientIdle /\ InitUnitIdle /\ InitRaceIdle

\* One call on a cache directory in any state an earlier run left it in.
Init ==
    /\ cache \in [CachePaths -> LeftBehind]
    /\ InitLocals
    /\ InitApart

\* Successive calls, starting with an empty cache directory.
InitCache == InitRepository /\ InitApart

\* ------------------------------------------------------ fetch_data (steps)
\* The errors the cache read of a call can meet.
LoadErrors(f) == IF f.kind = "absent" THEN {NoError} ELSE {NoError, IOError}

\* (mutant) the cached value is never used.
CacheIgnored(cached_data) == FALSE

\* `if cached_data:` - None is falsy, a loaded entry (a dict of two keys) is not.
IsCacheHit(cached_data) == cached_data.kind = "value"

\* Entry of fetch_data: the cache lookup and, on a miss, the locals.
Enter(who, roster, key, io, limit) ==
    LET cache_path == get_cache_path(key[1], key[2])
        cached_data == load_cached_data(cache[cache_path], io)
    IN /\ pc \in {"idle", "returned"}
       /\ calls < limit
       /\ calls' = calls + 1
       /\ caller' = who
       /\ bank_info' = roster
       /\ start_date' = key[1]
       /\ end_date' = key[2]
       /\ retry_count' = 0
       /\ idx' = 1
       /\ institutions_data' = EmptyDict
       /\ financials_data' = EmptyDict
       /\ api_failures' = 0
       /\ bank_data' = None
       /\ metrics' = IF who = "service" /\ cached_data.kind = "raised"
                     THEN {cached_data} ELSE {}
       /\ inst_calls' = 0
       /\ fin_calls' = 0
       /\ cache_writes' = 0
       /\ load_error' = IF cache[cache_path].kind = "absent" THEN NoError
                        ELSE ReadError(cache[cache_path], io)
       /\ write_outcome' = "none"
       /\ no_match' = 0
       /\ outage' = TRUE
       /\ IF IsCacheHit(cached_data)
          THEN /\ result' = cached_data
               /\ path' = "hit"
               /\ pc' = IF who = "service" THEN "fetched" ELSE "returned"
          ELSE IF cached_data.kind = "raised"
          THEN /\ result' = cached_data
               /\ path' = "none"
               /\ pc' = "returned"
          ELSE /\ result' = NotCalled
               /\ path' = "none"
               /\ pc' = "item"
       /\ UNCHANGED << cache, written, apart >>

\* fetch_data(bank_info, start_date, end_date), called directly.
fetch_data ==
    \E roster \in Rosters, key \in Keys :
        \E io \in LoadErrors(cache[get_cache_path(key[1], key[2])]) :
            Enter("direct", roster, key, io, 1)

\* fetch_data, called again and again on the same cache directory.
fetch_data_again ==
    \E roster \in ShortRosters, key \in Keys :
        \E io \in LoadErrors(cache[get_cache_path(key[1], key[2])]) :
            Enter("direct", roster, key, io, MaxCalls)

\* get_metrics_data(start_date, end_date): fetch_data(BANK_INFO, ...).
get_metrics_data_call ==
    \E key \in Keys :
        \E io \in LoadErrors(cache[get_cache_path(key[1], key[2])]) :
            Enter("service", BANK_INFO, key, io, 1)

\* Lines 284-292 and 294-313: one roster item up to its institution record.
\* An item of invalid format makes no call.
InstitutionStep ==
    /\ pc = "item"
    /\ idx <= Len(bank_info)
    /\ LET bank_item == bank_info[idx]
       IN IF ~IsByName(bank_item) /\ ~IsByCert(bank_item)
          THEN /\ idx' = idx + 1
               /\ UNCHANGED << pc, institutions_data, api_failures, bank_data,
                               inst_calls, no_match, outage >>
          ELSE \E o \in InstOutcomes(bank_item) :
                 LET institutions == get_institutions(o)
                 IN /\ inst_calls' = inst_calls + 1
                    /\ outage' = (outage /\ o \in TransportFailures)
                    /\ IF institutions.kind = "raised"
                       THEN \* except Exception: api_failures += 1
                            /\ api_failures' = api_failures + 1
                            /\ idx' = idx + 1
                            /\ UNCHANGED << pc, institutions_data, bank_data, no_match >>
                       ELSE IF institutions.value = << >>
                       THEN \* "No data found for bank": continue
                            /\ idx' = idx + 1
                            /\ no_match' = no_match + 1
                            /\ UNCHANGED << pc, institutions_data, api_failures, bank_data >>
                       ELSE LET bank == institutions.value[1]
                            IN IF /\ bank.kind = "dict"
                                  /\ "data" \in DOMAIN bank
                                  /\ "NAME" \in DOMAIN bank.data
                                  /\ "CERT" \in DOMAIN bank.data
                               THEN /\ institutions_data' =
                                        DictSet(institutions_data, bank.data.NAME, bank.data)
                                    /\ bank_data' = bank.data
                                    /\ pc' = "financials"
                                    /\ UNCHANGED << idx, api_failures, no_match >>
                               ELSE \* "Required fields missing" / "Unexpected data structure"
                                    /\ idx' = idx + 1
                                    /\ UNCHANGED << pc, institutions_data, api_failures,
                                                    bank_data, no_match >>
    /\ UNCHANGED << cache, written, calls, args, retry_count, financials_data, result,
                    metrics, path, fin_calls, cache_writes, load_error,
                    write_outcome, apart >>

\* (mutant) the financial history stored under the certificate number.
KeyByCert(record) == record.CERT

\* Line 308: the financial history goes under the name the institution
\* record was stored under at line 302.
FinancialsKey(record) == record.NAME

\* Lines 303-309 and 314-316: the financial history of the resolved item.
FinancialsStep ==
    /\ pc = "financials"
    /\ \E o \in FinOutcomes :
         LET financials == get_financials(o)
         IN /\ fin_calls' = fin_calls + 1
            /\ outage' = (outage /\ o \in TransportFailures)
            /\ IF financials.kind = "raised"
               THEN /\ api_failures' = api_failures + 1
                    /\ UNCHANGED financials_data
               ELSE /\ financials_data' =
                        DictSet(financials_data, FinancialsKey(bank_data),
                                DataOf(financials.value))
                    /\ UNCHANGED api_failures
    /\ idx' = idx + 1
    /\ pc' = "item"
    /\ bank_data' = None
    /\ UNCHANGED << cache, written, calls, args, retry_count, institutions_data, result,
                    metrics, path, inst_calls, cache_writes, load_error,
                    write_outcome, no_match, apart >>

\* (mutant) a retry loop without the break of line 320.
LoopEndsWhenExhausted == retry_count + 1 >= max_retries

\* Lines 274 and 319-320: the retry loop ends after this attempt.
LoopEnds == Truthy(institutions_data) \/ retry_count + 1 >= max_retries

\* (mutant) a retry that starts counting again.
FailuresReset(failures) == 0

\* Lines 276-279: a retry clears the two maps; the failure counter of line
\* 271 is not among what it resets.
FailuresOnRetry(failures) == failures

\* Lines 274-280 and 318-320: the end of one attempt over the roster.
EndAttempt ==
    /\ pc = "item"
    /\ idx > Len(bank_info)
    /\ IF LoopEnds
       THEN /\ pc' = "after_loop"
            /\ UNCHANGED << retry_count, idx, institutions_data, financials_data,
                            api_failures, no_match >>
       ELSE /\ retry_count' = retry_count + 1
            /\ institutions_data' = EmptyDict
            /\ financials_data' = EmptyDict
            /\ api_failures' = FailuresOnRetry(api_failures)
            /\ idx' = 1
            /\ no_match' = 0
            /\ UNCHANGED pc
    /\ UNCHANGED << cache, written, calls, args, bank_data, result, metrics,
                    path, inst_calls, fin_calls, cache_writes, load_error,
                    write_outcome, outage, apart >>

\* Line 330: the test after the retry loop.
UseFallback ==
    api_failures > Len(bank_info) \div 2 \/ ~Truthy(institutions_data)

\* save_to_cache(data, start_date, end_date) and return data.
SaveAndReturn(data, w) ==
    LET cache_path == get_cache_path(start_date, end_date)
    IN /\ cache' = [cache EXCEPT ![cache_path] = save_to_cache(@, data, w)]
       /\ written' = IF w = "ok" THEN [written EXCEPT ![cache_path] = Returned(data)]
                     ELSE written
       /\ cache_writes' = cache_writes + 1
       /\ write_outcome' = w
       /\ IF WriteError(w) = NoError \/ WriteError(w) \in SaveCaught
          THEN /\ result' = Returned(data)
               /\ pc' = IF caller = "service" THEN "fetched" ELSE "returned"
          ELSE /\ result' = Raised(WriteError(w))
               /\ pc' = "returned"

\* Lines 330-332: too many failures or no institution.
ReturnFallback ==
    /\ pc = "after_loop"
    /\ UseFallback
    /\ \E w \in WriteOutcomes :
         SaveAndReturn(generate_fallback_data(start_date, end_date), w)
    /\ path' = "fallback"
    /\ UNCHANGED << calls, args, locals, metrics, inst_calls, fin_calls, load_error,
                    no_match, outage, apart >>

\* Lines 334-342: the live result.
ReturnLive ==
    /\ pc = "after_loop"
    /\ ~UseFallback
    /\ \E w \in WriteOutcomes :
         SaveAndReturn([institutions_data |-> institutions_data,
                        financials_data |-> financials_data], w)
    /\ path' = "live"
    /\ UNCHANGED << calls, args, locals, metrics, inst_calls, fin_calls, load_error,
                    no_match, outage, apart >>

\* Lines 775-822: get_metrics_data once fetch_data has returned.
get_metrics_data_rest ==
    /\ pc = "fetched"
    /\ metrics' = get_metrics_data(result.value)
    /\ pc' = "returned"
    /\ UNCHANGED << cache, written, calls, args, locals, result, history, apart >>

\* One call of fetch_data.
Next ==
    \/ fetch_data
    \/ InstitutionStep
    \/ FinancialsStep
    \/ EndAttempt
    \/ ReturnFallback
    \/ ReturnLive

Spec == Init /\ [][Next]_vars

\* A call is sequential code whose requests time out (line 113) and whose
\* loops are bounded: a step that can be taken is taken.
\* One call on an empty cache directory.
SpecFair == InitCache /\ [][Next]_vars /\ WF_vars(Next)

\* One call of get_metrics_data by a service constructed on an empty cache
\* directory.
NextService ==
    \/ get_metrics_data_call
    \/ InstitutionStep
    \/ FinancialsStep
    \/ EndAttempt
    \/ ReturnFallback
    \/ ReturnLive
    \/ get_metrics_data_rest

SpecService == InitCache /\ [][NextService]_vars

NextCache ==
    \/ fetch_data_again
    \/ InstitutionStep
    \/ FinancialsStep
    \/ EndAttempt
    \/ ReturnFallback
    \/ ReturnLive

SpecCache == InitCache /\ [][NextCache]_vars


\* ------------------------------------------- the remote client on its own
\* The filters of fetch_data's queries: NAME:"<name>" or CERT:<cert> for an
\* institution, CERT:<cert> AND REPDTE:[<start> TO <end>] for its financials.
InstitutionFilter(bank_item) ==
    IF IsByName(bank_item) THEN << "NAME", bank_item.name >>
    ELSE << "CERT", bank_item.cert >>

FinancialFilter(cert, start, end) == << "CERT", cert, "REPDTE", start, end >>

ValidItems ==
    {RosterPool[i] : i \in {k \in DOMAIN RosterPool :
                              IsByName(RosterPool[k]) \/ IsByCert(RosterPool[k])}}

ClientRequests ==
    {[endpoint |-> "institutions", filters |-> InstitutionFilter(b), item |-> b] :
        b \in ValidItems} \cup
    {[endpoint |-> "financials",
      filters |-> FinancialFilter(RemoteInstitution(b).CERT, k[1], k[2]), item |-> b] :
        b \in ValidItems, k \in Keys}

ClientOutcomes(req) ==
    IF req.endpoint = "institutions" THEN InstOutcomes(req.item) ELSE FinOutcomes

\* A caller prepares a query.
ClientRequest ==
    /\ client_req = NotCalled
    /\ client_req' \in ClientRequests
    /\ UNCHANGED << repository, calc, unit, race, client_out >>

\* get_institutions / get_financials on that query, and the get_data inside.
ClientCall ==
    /\ client_req # NotCalled
    /\ client_out = NotCalled
    /\ \E o \in ClientOutcomes(client_req) :
         client_out' =
            [outcome |-> o,
             envelope |-> get_data(o),
             list |-> IF client_req.endpoint = "institutions"
                      THEN get_institutions(o) ELSE get_financials(o)]
    /\ UNCHANGED << repository, calc, unit, race, client_req >>

NextClient == ClientRequest \/ ClientCall

InitClient == InitRepository /\ InitApart

SpecClient == InitClient /\ [][NextClient]_vars

\* ----------------------------------------------- the calculator on its own
\* Longest record list of one bank given to calculate_metrics.
MaxRecords == 2

CalcBanks == {BANK_INFO[1].name, BANK_INFO[2].name}

\* Period records: report dates before and after 2019-01-01.
CalcRecords == {[REPDTE |-> d] : d \in {RemoteDates[1], RemoteDates[2]}}

RecordLists == UNION {[1..n -> CalcRecords] : n \in 0..MaxRecords}

\* The orders in which financials_data can hold its banks.
BankOrders ==
    {order \in UNION {[1..n -> CalcBanks] : n \in 0..Cardinality(CalcBanks)} :
        \A i, j \in DOMAIN order : i # j => order[i] # order[j]}

CalcInputs ==
    {[order |-> order, at |-> at] :
        order \in BankOrders, at \in [CalcBanks -> RecordLists]} 

\* The keys of a dict are those of its insertion order.
DictOf(d) == [order |-> d.order, at |-> [k \in DictKeys(d) |-> d.at[k]]]

InitCalc ==
    /\ InitRepository
    /\ InitClientIdle
    /\ InitUnitIdle
    /\ InitRaceIdle
    /\ calc_in \in {DictOf(d) : d \in CalcInputs}
    /\ calc_out = NotCalled

\* calculate_metrics(financials_data).
CalculateStep ==
    /\ calc_out = NotCalled
    /\ calc_out' \in calculate_metrics(calc_in)
    /\ UNCHANGED << repository, client, unit, race, calc_in >>

NextCalc == CalculateStep

SpecCalc == InitCalc /\ [][NextCalc]_vars

\* ------------------------------------- the calculator's methods, one call
\* The values a field of a period record is given.
RawValues ==
    {None, JInt(0), JInt(1500), JInt(-7), JFloat(Num(25, 2)), JFloat(NaN), JFloat(Inf(1)),
     JBool(TRUE), JStr("1500"), JStr("12.5"), JStr("nan"), JStr("inf"), JStr("-Infinity"),
     JStr(""), JStr("N/A"), JBigInt, JList}

\* A field that a record does not have.
Absent == [kind |-> "absent"]

\* A record field: nothing when the value is Absent.
Field(name, value) == IF value = Absent THEN << >> ELSE name :> value

\* Report dates around 2019-01-01.
UnitDates == {20181231, 20190101, 20190331}

\* (CT1BADJ, EQ, EQPP)
CeclInputs ==
    {<<Absent, Absent, Absent>>, <<JInt(100), JInt(90), JInt(5)>>,
     <<JInt(0), JInt(600000), JInt(0)>>}

\* Period records with the fields of the capital base, of two loan
\* categories and of the charge-off ratio.
ProfileRecords ==
    {("REPDTE" :> d) @@ Field("RBCT1J", t) @@ Field("LNATRES", a)
       @@ Field("CT1BADJ", c[1]) @@ Field("EQ", c[2]) @@ Field("EQPP", c[3])
       @@ Field("NTLNLSQ", q) @@ Field("LNRE", JInt(500000))
       @@ Field("LNREMULT", JInt(250000)) :
        d \in UnitDates,
        t \in {Absent, JInt(0), JInt(999000), JInt(1000000), JInt(2500000)},
        a \in {Absent, JInt(1000), JInt(1001), JInt(4000)},
        c \in CeclInputs, q \in {Absent, JInt(50), JInt(-20)}}

\* A period record one field of which holds any raw value.
WildRecords ==
    {(f :> v) @@ ("REPDTE" :> d) @@ Field("RBCT1J", JInt(2500000))
       @@ Field("LNATRES", JInt(4000)) @@ Field("NTLNLSQ", JInt(50))
       @@ Field("LNRE", JInt(500000)) :
        f \in {"ASSET", "LNRE", "RBCT1J", "LNATRES", "NTLNLSQ", "LNCOMRE", "EQ"},
        v \in RawValues, d \in {20181231, 20190331}}

\* Longest record list of the one-bank datasets.
MaxPeriods == 13

\* The first n quarter-end dates from 2016 on.
Quarters(n) ==
    SubSeq(QuarterEnds(2016) \o QuarterEnds(2017) \o QuarterEnds(2018) \o QuarterEnds(2019)
           \o QuarterEnds(2020), 1, n)

\* The four fields of the non-owner-occupied CRE aggregate, adding up to a.
CreFields(a, split) ==
    IF split = 1 THEN Field("LNRECONS", JInt(a))
    ELSE Field("LNREMULT", JInt(a - (a \div 2))) @@ Field("LNRENROT", JInt(a \div 4))
         @@ Field("LNCOMRE", JInt((a \div 2) - (a \div 4)))

\* n consecutive quarterly records of one bank whose aggregate is first at
\* period 0, last at period n - 1 and 1200 in between.
Periods(n, first, last, split) ==
    [p \in 1..n |->
        ("REPDTE" :> Quarters(n)[p])
        @@ CreFields(IF p = 1 THEN first ELSE IF p = n THEN last ELSE 1200, split)]

Reversed(seq) == [i \in DOMAIN seq |-> seq[Len(seq) + 1 - i]]

PeriodLists ==
    {IF turned THEN Reversed(Periods(n, first, last, split))
     ELSE Periods(n, first, last, split) :
        n \in {2, LOOKBACK} \cup (LOOKBACK + 1)..MaxPeriods,
        first \in {0, 999, 1000, 1001, 2000}, last \in {1500, 3000},
        split \in {1, 2}, turned \in BOOLEAN}

\* Record lists with a gap: a year is missing after the first record.
GappedPeriods(n, first, last) ==
    [p \in 1..n |->
        ("REPDTE" :> Quarters(n + 4)[IF p = 1 THEN 1 ELSE p + 4])
        @@ CreFields(IF p = 1 THEN first ELSE IF p = n THEN last ELSE 1200, 1)]

GappedLists ==
    {IF turned THEN Reversed(GappedPeriods(n, first, 3000))
     ELSE GappedPeriods(n, first, 3000) :
        n \in (LOOKBACK + 1)..MaxPeriods, first \in {1000, 2000}, turned \in BOOLEAN}

\* The records of a second bank: fewer than the lookback, dated like the
\* first and the last record of the first bank.
OtherBankLists ==
    {<< >>,
     << ("REPDTE" :> Quarters(LOOKBACK + 1)[LOOKBACK + 1]) @@ CreFields(6000, 1),
        ("REPDTE" :> Quarters(LOOKBACK + 1)[1]) @@ CreFields(4000, 1) >>}

UnitBank == BANK_INFO[1].name

OtherBank == BANK_INFO[2].name

\* Datasets of two banks, in either order.
TwoBankTables ==
    {[order |-> order, at |-> (UnitBank :> l) @@ (OtherBank :> o)] :
        order \in {<< UnitBank, OtherBank >>, << OtherBank, UnitBank >>},
        l \in {Periods(LOOKBACK + 1, 2000, 3000, 1),
               Reversed(GappedPeriods(LOOKBACK + 1, 2000, 3000))},
        o \in OtherBankLists}

\* A bank name the remote source can answer with that has no display name.
UnmappedBank == "Morgan Stanley Bank, National Association"

\* The record lists of a bank in the datasets given to get_metrics_data.
ServiceRecordLists ==
    LET early == ("REPDTE" :> 20181231) @@ Field("RBCT1J", JInt(2500000))
                 @@ Field("LNRE", JInt(500000))
        late == ("REPDTE" :> 20190331) @@ Field("LNATRES", JInt(4000))
                @@ Field("NTLNLSQ", JInt(50))
    IN {<< >>, << early >>, << late, early >>}

\* Datasets as fetch_data returns them: the same banks in both maps, one
\* with a display name, one without.
ServiceDatasets ==
    {[institutions_data |->
         [order |-> order, at |-> [k \in {order[i] : i \in DOMAIN order} |-> [NAME |-> k]]],
      financials_data |->
         [order |-> order, at |-> [k \in {order[i] : i \in DOMAIN order} |-> lists[k]]]] :
        order \in {<< UnitBank >>, << UnmappedBank >>, << UnitBank, UnmappedBank >>,
                   << UnmappedBank, UnitBank >>},
        lists \in [{UnitBank, UnmappedBank} -> ServiceRecordLists]}

\* -------------------------------------------- main: the data preparation
\* A number drawn by np.random.uniform, or computed from one.
Random == [kind |-> "random"]

\* list(BANK_NAME_MAPPING.values()): the display names, in the order of the
\* mapping (that of BANK_INFO).
expected_banks == [i \in DOMAIN BANK_INFO |-> BANK_NAME_MAPPING[BANK_INFO[i].name]]

\* The month ends from 2000-01-31 to 2024-12-31 that close a quarter.
sample_dates == QuartersFrom(2000, 20000131, 20241231)

\* The keys of the row literal of load_sample_data.
SampleColumns ==
    << "Bank", "Date", "Total Assets", "Total Deposits", "Total Loans and Leases",
       "Net Loans and Leases", "Total Securities", "Real Estate Loans",
       "RE Construction and Land Development", "Multifamily",
       "Loans to Nonresidential Properties", "Commercial and Industrial Loans",
       "Credit Cards", "Consumer Loans", "Tier 1 (Core) Capital",
       "Allowance for Credit Loss", "Net Income", "Return on Assets",
       "Return on Equity", "Net Interest Margin", "Efficiency Ratio",
       "Leverage (Core Capital) Ratio", "Total Risk-Based Capital Ratio",
       "Net Loans and Leases to Deposits", "Net Loans and Leases to Assets",
       "Real Estate Loans to Tier 1 + ACL",
       "RE Construction and Land Development to Tier 1 + ACL",
       "Commercial RE to Tier 1 + ACL", "C&I Loans to Tier 1 + ACL",
       "Credit Cards to Tier 1 + ACL", "Nonperforming Assets / Total Assets",
       "Assets Past Due 30-89 Days / Total Assets",
       "Assets Past Due 90+ Days / Total Assets", "Noncurrent Loans / Total Loans",
       "Net Charge-Offs / Total Loans & Leases",
       "Net Charge-Offs / Allowance for Credit Loss" >>

\* The keys of the row literal of generate_temp_data.
TempColumns ==
    << "Bank", "Date", "Total Assets", "Tier 1 (Core) Capital", "Return on Assets",
       "Return on Equity" >>

\* for bank in banks: for date in dates: data.append({...}), with a number
\* in every column but 'Bank' and 'Date'; then pd.DataFrame(data).
PlaceholderFrame(banks, dates, columns) ==
    IF banks = << >> \/ dates = << >> THEN [columns |-> << >>, rows |-> << >>]
    ELSE [columns |-> columns,
          rows |-> [k \in 1..(Len(banks) * Len(dates)) |->
                      [c \in {columns[j] : j \in DOMAIN columns} |->
                          IF c = "Bank" THEN banks[((k - 1) \div Len(dates)) + 1]
                          ELSE IF c = "Date" THEN dates[((k - 1) % Len(dates)) + 1]
                          ELSE Random]]]

load_sample_data == PlaceholderFrame(expected_banks, sample_dates, SampleColumns)

\* (mutant) no placeholder rows.
NoPlaceholders(unique_banks, unique_dates) == [columns |-> << >>, rows |-> << >>]

generate_temp_data(unique_banks, unique_dates) ==
    PlaceholderFrame(unique_banks, unique_dates, TempColumns)

\* Series.unique(): the values in the order of their first appearance.
RECURSIVE Unique(_, _)
Unique(values, n) ==
    IF n = 0 THEN << >>
    ELSE Once(LAMBDA before :
                  IF \E i \in DOMAIN before : before[i] = values[n] THEN before
                  ELSE Append(before, values[n]),
              Unique(values, n - 1))

\* pd.concat([a, b]): the rows of a, then those of b, over the columns of
\* both; a row has None (NaN) in the columns its frame did not have.
concat(a, b) ==
    Once(LAMBDA columns :
             [columns |-> columns,
              rows |-> [k \in 1..(Len(a.rows) + Len(b.rows)) |->
                          LET row == IF k <= Len(a.rows) THEN a.rows[k]
                                     ELSE b.rows[k - Len(a.rows)]
                          IN [c \in {columns[j] : j \in DOMAIN columns} |->
                                 IF c \in DOMAIN row THEN row[c] ELSE None]]],
         a.columns \o SelectSeq(b.columns,
                                LAMBDA c : \A j \in DOMAIN a.columns : a.columns[j] # c))

\* DataFrame.empty: no row or no column.
IsEmptyFrame(df) == df.rows = << >> \/ df.columns = << >>

\* main, from the call of get_metrics_data (which returned or raised got) to
\* the table given to DashboardBuilder.
main(got) ==
    Once(LAMBDA metrics_df :
             Once(LAMBDA actual_banks :
                      Once(LAMBDA missing_banks :
                               IF missing_banks # << >>
                               THEN concat(metrics_df,
                                           generate_temp_data(
                                               missing_banks,
                                               Unique([i \in DOMAIN metrics_df.rows |->
                                                          metrics_df.rows[i].Date],
                                                      Len(metrics_df.rows))))
                               ELSE metrics_df,
                           SelectSeq(expected_banks, LAMBDA bank : bank \notin actual_banks)),
                  {metrics_df.rows[i].Bank : i \in DOMAIN metrics_df.rows}),
         IF got.kind = "raised" THEN load_sample_data
         ELSE IF IsEmptyFrame(got.value) THEN load_sample_data
         ELSE got.value)

\* A dataset with a short history for every bank of BANK_INFO.
FullDataset ==
    [institutions_data |->
         [order |-> [i \in DOMAIN BANK_INFO |-> BANK_INFO[i].name],
          at |-> [k \in {BANK_INFO[i].name : i \in DOMAIN BANK_INFO} |-> [NAME |-> k]]],
     financials_data |->
         [order |-> [i \in DOMAIN BANK_INFO |-> BANK_INFO[i].name],
          at |-> [k \in {BANK_INFO[i].name : i \in DOMAIN BANK_INFO} |->
                     << ("REPDTE" :> 20190331) @@ Field("ASSET", JInt(2500000)) >>]]]

\* What get_metrics_data can hand to main, or raise.
MainInputs ==
    UNION {get_metrics_data(d) :
              d \in ServiceDatasets
                    \cup {FullDataset,
                          [institutions_data |-> EmptyDict, financials_data |-> EmptyDict]}}
    \cup {Raised(UnicodeDecodeError)}

UnitInputs ==
    {[fn |-> "safe_float", value |-> v] : v \in RawValues}
    \cup {[fn |-> "row", financial |-> r] : r \in ProfileRecords \cup WildRecords}
    \cup {[fn |-> "table", financials_data |-> DictSet(EmptyDict, UnitBank, l)] :
            l \in PeriodLists \cup GappedLists}
    \cup {[fn |-> "table", financials_data |-> d] : d \in TwoBankTables}
    \cup {[fn |-> "service", data |-> d] : d \in ServiceDatasets}
    \cup {[fn |-> "main", got |-> r] : r \in MainInputs}

InitUnit ==
    /\ InitRepository
    /\ InitCalcIdle
    /\ InitClientIdle
    /\ InitRaceIdle
    /\ unit_in \in UnitInputs
    /\ unit_out = NotCalled

\* safe_float(value)
SafeFloatCall ==
    /\ unit_in.fn = "safe_float"
    /\ unit_out = NotCalled
    /\ unit_out' = safe_float(unit_in.value)
    /\ UNCHANGED << repository, calc, client, race, unit_in >>

\* The body of the loop of calculate_metrics on a single record.
RowCall ==
    /\ unit_in.fn = "row"
    /\ unit_out = NotCalled
    /\ unit_out' = LET row == MetricsRow(UnitBank, << unit_in.financial >>, 1)
                   IN IF IsRaised(row) THEN row ELSE Returned(row)
    /\ UNCHANGED << repository, calc, client, race, unit_in >>

\* calculate_metrics on the records of one bank.
\* Line 549: sorted() builds a new list; the list of the caller (and no
\* record in it: the helpers write to metrics only) is as it was.
ListAfterSorted(financials) == financials

TableCall ==
    /\ unit_in.fn = "table"
    /\ unit_out = NotCalled
    /\ unit_out' \in calculate_metrics(unit_in.financials_data)
    /\ unit_in' = [unit_in EXCEPT !.financials_data.at =
                      [k \in DOMAIN @ |-> ListAfterSorted(@[k])]]
    /\ UNCHANGED << repository, calc, client, race >>

\* get_metrics_data from the dataset fetch_data returned to it.
ServiceCall ==
    /\ unit_in.fn = "service"
    /\ unit_out = NotCalled
    /\ unit_out' \in get_metrics_data(unit_in.data)
    /\ UNCHANGED << repository, calc, client, race, unit_in >>

\* main() up to the construction of DashboardBuilder.
MainCall ==
    /\ unit_in.fn = "main"
    /\ unit_out = NotCalled
    /\ unit_out' = Returned(main(unit_in.got))
    /\ UNCHANGED << repository, calc, client, race, unit_in >>

NextUnit == SafeFloatCall \/ RowCall \/ TableCall \/ ServiceCall \/ MainCall

SpecUnit == InitUnit /\ [][NextUnit]_vars

\* ------------------------------------ two processes on one uncached key
\* Two processes call fetch_data with the same key on an empty cache
\* directory. Nothing locks the file: each function call of a process is a
\* step, and the text json.dump writes reaches the file block by block, as
\* the buffer of the file object fills.
Procs == {1, 2}

RaceKey == << 20181001, 20190331 >>

\* What a process collects: the remote data of one bank, or, when the
\* remote service gave it nothing, the synthetic data of every bank.
LiveDataset ==
    [institutions_data |->
         DictSet(EmptyDict, BANK_INFO[1].name, RemoteInstitution(BANK_INFO[1])),
     financials_data |->
         DictSet(EmptyDict, BANK_INFO[1].name,
                 DataOf(<< Envelope([REPDTE |-> RemoteDates[2]]),
                           Envelope([REPDTE |-> RemoteDates[1]]) >>))]

RaceDatasets == {LiveDataset, generate_fallback_data(RaceKey[1], RaceKey[2])}

\* The blocks of a JSON text: the longer the text, the more blocks.
BlocksOf(text) ==
    [k \in 1..(Len(text[1][2]) + Len(text[2][2])) |-> [text |-> text, no |-> k]]

\* The zero bytes between the end of a file and a write beyond it.
Hole == [text |-> << >>, no |-> 0]

\* The blocks of a file after a write of block b at offset off.
WriteAt(blocks, off, b) ==
    [k \in 1..(IF Len(blocks) > off THEN Len(blocks) ELSE off + 1) |->
        IF k = off + 1 THEN b
        ELSE IF k <= Len(blocks) THEN blocks[k]
        ELSE Hole]

\* The file as a reader finds it: a JSON text when it holds every block of
\* one text and nothing else, a text json.load rejects otherwise (an empty
\* file, a text cut short, blocks of two texts, zero bytes).
FileRead(file) ==
    IF ~file.exists THEN NoFile
    ELSE IF file.blocks # << >> /\ file.blocks = BlocksOf(file.blocks[1].text)
    THEN JsonFile(file.blocks[1].text)
    ELSE Garbage

RaceStart ==
    [file |-> [exists |-> FALSE, blocks |-> << >>],
     proc |-> [p \in Procs |->
                  [pc |-> "load", data |-> None, off |-> 0, result |-> NotCalled]]]

InitRace ==
    /\ InitRepository
    /\ InitCalcIdle
    /\ InitClientIdle
    /\ InitUnitIdle
    /\ race = RaceStart

RaceStep(p, file, state) ==
    /\ race' = [file |-> file, proc |-> [race.proc EXCEPT ![p] = state]]
    /\ UNCHANGED << repository, calc, client, unit >>

\* cached_data = self.load_cached_data(...); if cached_data: return it
RaceLoad(p) ==
    LET me == race.proc[p]
        cached_data == load_cached_data(FileRead(race.file), NoError)
    IN /\ me.pc = "load"
       /\ RaceStep(p, race.file,
                   IF IsCacheHit(cached_data) \/ cached_data.kind = "raised"
                   THEN [me EXCEPT !.pc = "done", !.result = cached_data]
                   ELSE [me EXCEPT !.pc = "fetch"])

\* The retry loop and the choice between collected and synthetic data.
RaceFetch(p) ==
    LET me == race.proc[p]
    IN /\ me.pc = "fetch"
       /\ \E data \in RaceDatasets :
            RaceStep(p, race.file, [me EXCEPT !.pc = "open", !.data = data])

\* save_to_cache: open(cache_path, 'w') creates the file or empties it.
RaceOpen(p) ==
    LET me == race.proc[p]
    IN /\ me.pc = "open"
       /\ RaceStep(p, [exists |-> TRUE, blocks |-> << >>],
                   [me EXCEPT !.pc = "write", !.off = 0])

\* save_to_cache: json.dump(data, f), one block at the offset of this
\* process's file object; after the last block the call returns the data.
RaceWrite(p) ==
    LET me == race.proc[p]
        blocks == BlocksOf(json_dump(me.data))
        last == me.off + 1 = Len(blocks)
    IN /\ me.pc = "write"
       /\ RaceStep(p,
                   [exists |-> TRUE,
                    blocks |-> WriteAt(race.file.blocks, me.off, blocks[me.off + 1])],
                   [me EXCEPT !.off = me.off + 1,
                              !.pc = IF last THEN "done" ELSE "write",
                              !.result = IF last THEN Returned(me.data) ELSE NotCalled])

NextRace == \E p \in Procs : RaceLoad(p) \/ RaceFetch(p) \/ RaceOpen(p) \/ RaceWrite(p)

SpecRace == InitRace /\ [][NextRace]_vars


\* ================================================================== claims
CachePath == get_cache_path(start_date, end_date)

\* fetch_data has returned to its caller.
FetchDone == pc \in {"fetched", "returned"} /\ result # NotCalled

\* fetch_data has returned a dataset after a cache miss.
MissDone == FetchDone /\ path \in {"live", "fallback"}

RosterNames == {bank_info[i].name : i \in DOMAIN bank_info}

\* The number of period records a dataset holds for entity k.
Count(data, k) == Len(data.financials_data.at[k])

\* Same entity key sets, same number of period records per entity.
Equivalent(a, b) ==
    /\ DictKeys(a.institutions_data) = DictKeys(b.institutions_data)
    /\ DictKeys(a.financials_data) = DictKeys(b.financials_data)
    /\ \A k \in DictKeys(a.financials_data) : Count(a, k) = Count(b, k)

\* The dataset the locals of fetch_data hold.
Live == [institutions_data |-> institutions_data, financials_data |-> financials_data]

\* C1: a call that finds a parseable entry under its key, and reads it
\* without error, returns that entry's content (the dataset written under
\* the key), calls neither get_institutions nor get_financials and leaves
\* the cache as it is, whatever roster it was given.
C1_CacheHitReturnsEntry ==
    [][ ( /\ calls' = calls + 1
          /\ cache[CachePath'].kind = "json"
          /\ load_error' = NoError )
        => ( /\ pc' = "returned"
             /\ path' = "hit"
             /\ result' = Returned(json_load(cache[CachePath'].text))
             /\ written[CachePath'].kind = "value"
             /\ result' = written[CachePath']
             /\ Equivalent(result'.value, written[CachePath'].value)
             /\ inst_calls' = 0
             /\ fin_calls' = 0
             /\ cache_writes' = 0
             /\ cache' = cache ) ]_vars

\* A hit whose roster names other entities than the entry holds.
C1_Witness ==
    /\ pc = "returned"
    /\ path = "hit"
    /\ calls = 2
    /\ result.kind = "value"
    /\ RosterNames # DictKeys(result.value.institutions_data)
    /\ inst_calls = 0

\* C2: fetch_data never raises, and on a cache miss it returns a dataset
\* with both maps whose institutions map is not empty, whatever the cache
\* file is (absent, corrupt, unreadable, unwritable) and whatever the
\* remote calls ended in.
C2_MissReturnsDataset ==
    /\ result.kind # "raised"
    /\ MissDone =>
         /\ result.kind = "value"
         /\ {"institutions_data", "financials_data"} \subseteq DOMAIN result.value
         /\ Truthy(result.value.institutions_data)

\* C3: get_metrics_data returns a table for every dataset fetch_data
\* returns to it (live, synthetic or read from the cache).
C3_PipelineNeverRaises ==
    (pc = "returned" /\ caller = "service" /\ result.kind = "value") =>
        \A r \in metrics : r.kind = "value"

\* C4: with the three-entity roster, two of whose lookups match nothing, the
\* dataset returned on a miss is the synthetic one and holds all three.
C4_TwoOfThreeUnresolved ==
    (MissDone /\ bank_info = BANK_INFO /\ no_match = 2) =>
        /\ path = "fallback"
        /\ RosterNames \subseteq DictKeys(result.value.institutions_data)
        /\ RosterNames \subseteq DictKeys(result.value.financials_data)

\* Roster items that yielded no complete entry in the last attempt.
FailedItems == Len(bank_info) - Cardinality(DictKeys(financials_data))

\* C5: a miss returns the synthetic dataset exactly when more than half of
\* the roster items failed or no institution was collected, and the live
\* dataset of the last attempt otherwise.
C5_FallbackIffMajorityFailed ==
    MissDone =>
        /\ path = "fallback" <=>
              (2 * FailedItems > Len(bank_info) \/ ~Truthy(institutions_data))
        /\ path = "fallback" => result = Returned(generate_fallback_data(start_date, end_date))
        /\ path = "live" => result = Returned(Live)

\* The outcomes that are transport-level failures.
IsTransportFailure(o) ==
    o.kind = "error" /\ o.exc \in {Timeout, ConnectionError, HTTPError, InvalidJSON}

\* C6: on a timeout, a connection failure, a non-2xx status or a body that
\* is no JSON, get_data returns the empty envelope and get_institutions and
\* get_financials return the empty list; none of them raises.
C6_ClientSwallowsTransportFailures ==
    (client_out # NotCalled /\ IsTransportFailure(client_out.outcome)) =>
        /\ client_out.envelope = Returned(JsonObject(<< >>))
        /\ client_out.list = Returned(<< >>)

\* A financial lookup that met a non-2xx status.
C6_Witness ==
    /\ client_out # NotCalled
    /\ client_req.endpoint = "financials"
    /\ client_out.outcome = Failure(HTTPError)
    /\ client_out.list = Returned(<< >>)

\* C7: a cache file that cannot be read or parsed is a cache miss: the call
\* starts its first attempt as it does when there is no file.  A write that
\* fails is dropped: fetch_data returns the dataset it built.  Neither
\* raises.
C7_CacheErrorsNotFatal ==
    /\ [](result.kind # "raised")
    /\ []((FetchDone /\ write_outcome \in {"open_fails", "write_fails"}) =>
            result = Returned(IF path = "fallback"
                              THEN generate_fallback_data(start_date, end_date)
                              ELSE Live))
    /\ [][ (calls' = calls + 1 /\ load_error' # NoError)
           => ( /\ pc' = "item"
                /\ result' = NotCalled
                /\ retry_count' = 0
                /\ idx' = 1
                /\ institutions_data' = EmptyDict
                /\ financials_data' = EmptyDict
                /\ api_failures' = 0
                /\ cache' = cache ) ]_vars

C9_SameKeySets ==
    MissDone =>
        DictKeys(result.value.institutions_data) = DictKeys(result.value.financials_data)

RECURSIVE SumCounts(_, _)
SumCounts(financials_data_, n) ==
    IF n = 0 THEN 0
    ELSE Len(financials_data_.at[financials_data_.order[n]])
         + SumCounts(financials_data_, n - 1)

\* C10: calculate_metrics returns as many rows as its argument holds period
\* records, for every argument.
C10_RowCount ==
    calc_out # NotCalled =>
        /\ calc_out.kind = "value"
        /\ Len(calc_out.value.rows) = SumCounts(calc_in, Len(calc_in.order))

\* A call of the unit specification has returned or raised.
UnitDone(fn) == unit_out # NotCalled /\ unit_in.fn = fn

\* Raw values that are missing or no numeral.
NonNumeric ==
    {None, JStr(""), JStr("N/A"), JList}

\* C11: safe_float returns a finite number for every raw value and never
\* raises, 0.0 for a missing or non-numeric value; every base metric of a
\* row is a finite number.
C11_SafeFloatTotal ==
    /\ UnitDone("safe_float") =>
          /\ unit_out.kind = "value"
          /\ IsFinite(unit_out.value)
          /\ unit_in.value \in NonNumeric => unit_out.value = Zero
    /\ UnitDone("row") =>
          /\ unit_out.kind = "value"
          /\ \A c \in BasicNames : IsFinite(unit_out.value.at[c])

\* The integer a profile record holds in a field, 0 when it has none.
IntOf(financial, field) == IF field \in DOMAIN financial THEN financial[field].n ELSE 0

\* C12: for a report date from 2019-01-01 on, the transition amount is
\* CT1BADJ - EQ + EQPP and the capital base RBCT1J + LNATRES less that
\* amount; before, the amount is 0 and the base RBCT1J + LNATRES.  The row
\* carries the amount as 'CECL Transition Amount'.
C12_CeclDateConditional ==
    (UnitDone("row") /\ unit_in.financial \in ProfileRecords) =>
        LET f == unit_in.financial
            capital == calculate_capital_base(extract_basic_metrics(UnitBank, f), f)
            amount == IntOf(f, "CT1BADJ") - IntOf(f, "EQ") + IntOf(f, "EQPP")
            plain == IntOf(f, "RBCT1J") + IntOf(f, "LNATRES")
        IN /\ unit_out.kind = "value"
           /\ unit_out.value.at["CECL Transition Amount"] = capital[1]
           /\ f.REPDTE >= 20190101 =>
                 capital = << Num(amount, 1), Num(plain - amount, 1) >>
           /\ f.REPDTE < 20190101 => capital = << Zero, Num(plain, 1) >>

\* The record of 2019-01-01 with CT1BADJ 100, EQ 90 and EQPP 5: the amount is 15.
C12_Witness ==
    /\ UnitDone("row")
    /\ unit_in.financial \in ProfileRecords
    /\ unit_in.financial.REPDTE = 20190101
    /\ IntOf(unit_in.financial, "CT1BADJ") = 100
    /\ IntOf(unit_in.financial, "EQ") = 90
    /\ IntOf(unit_in.financial, "EQPP") = 5
    /\ unit_out.kind = "value"
    /\ unit_out.value.at["CECL Transition Amount"] = Num(15, 1)

\* The five loan-category ratios and the composite commercial real estate ratio.
CapitalRatios ==
    {"Real Estate Loans to Tier 1 + ACL",
     "RE Construction and Land Development to Tier 1 + ACL",
     "C&I Loans to Tier 1 + ACL", "Agriculture Loans to Tier 1 + ACL",
     "Credit Cards to Tier 1 + ACL", "Commercial RE to Tier 1 + ACL"}

\* The capital base of the record a row call was given.
CapitalBaseOf(financial) ==
    calculate_capital_base(extract_basic_metrics(UnitBank, financial), financial)[2]

\* A value of a row is a number: neither None nor nan.
IsNumber(x) == x # None /\ x.kind # "nan"

\* C13: when the capital base is at most 1,000,000 the six ratios are None,
\* never 0; when it is above, the six are numbers.
C13_RatiosNullBelowFloor ==
    (UnitDone("row") /\ unit_out.kind = "value") =>
        LET base == CapitalBaseOf(unit_in.financial)
        IN /\ Gt(base, Num(1000000, 1)) =>
                 \A c \in CapitalRatios : IsNumber(unit_out.value.at[c])
           /\ (IsFinite(base) /\ ~Gt(base, Num(1000000, 1))) =>
                 \A c \in CapitalRatios : unit_out.value.at[c] = None

\* The non-owner-occupied CRE aggregate of a record of integer fields.
CreAggregate(financial) ==
    IntOf(financial, "LNRECONS") + IntOf(financial, "LNREMULT")
    + IntOf(financial, "LNRENROT") + IntOf(financial, "LNCOMRE")

\* The records of the one bank a table call was given.
UnitRecords == unit_in.financials_data.at[UnitBank]

\* The record of a list that carries the report date d.
RecordAt(records, d) == CHOOSE r \in {records[i] : i \in DOMAIN records} : r.REPDTE = d

GrowthRate == "Non-Owner Occupied CRE 3-Year Growth Rate"

\* C14: for 13 consecutive quarterly records of one bank whose aggregate is
\* 1000 at period 0 and 1500 at period 12, the table has a growth rate of
\* 50.0 in the row of period 12 and None in the rows of periods 0 to 11.
C14_GrowthOverTwelveQuarters ==
    ( /\ UnitDone("table")
      /\ Len(UnitRecords) = LOOKBACK + 1
      /\ CreAggregate(RecordAt(UnitRecords, Quarters(LOOKBACK + 1)[1])) = 1000
      /\ CreAggregate(RecordAt(UnitRecords, Quarters(LOOKBACK + 1)[LOOKBACK + 1])) = 1500 )
    => /\ unit_out.kind = "value"
       /\ Len(unit_out.value.rows) = LOOKBACK + 1
       /\ \A i \in DOMAIN unit_out.value.rows :
             LET row == unit_out.value.rows[i]
             IN row[GrowthRate] = IF row.Date = Quarters(LOOKBACK + 1)[LOOKBACK + 1]
                                  THEN Num(50, 1) ELSE None

ChargeOffRatio == "Net Charge-Offs / Allowance for Credit Loss"

\* C15: in every row the charge-off ratio is the quarterly net charge-offs
\* divided by the allowance, times 100, when the allowance exceeds 1,000,
\* and 0, never None, when the allowance is at most 1,000.
C15_ChargeOffZeroFilled ==
    (UnitDone("row") /\ unit_out.kind = "value") =>
        LET row == unit_out.value.at
            allowance == row["Allowance for Credit Loss"]
            charge_offs == row["Total Loans and Leases Net Charge-Offs Quarterly"]
        IN /\ row[ChargeOffRatio] # None
           /\ Gt(allowance, Num(1000, 1)) =>
                 row[ChargeOffRatio] = Mul(Div(charge_offs, allowance), Num(100, 1))
           /\ ~Gt(allowance, Num(1000, 1)) => row[ChargeOffRatio] = Zero

\* A record with an allowance of exactly 1,000 and charge-offs of 50: the ratio is 0.
C15_Witness ==
    /\ UnitDone("row")
    /\ unit_in.financial \in ProfileRecords
    /\ IntOf(unit_in.financial, "LNATRES") = 1000
    /\ IntOf(unit_in.financial, "NTLNLSQ") = 50
    /\ unit_out.kind = "value"
    /\ unit_out.value.at[ChargeOffRatio] = Zero

\* C16: the rows of the table calculate_metrics returns are in ascending
\* order of date, all banks together, whatever the order of the banks and
\* of the records in its argument.
C16_SortedByDate ==
    (calc_out # NotCalled /\ calc_out.kind = "value") =>
        \A i \in 1..(Len(calc_out.value.rows) - 1) :
            calc_out.value.rows[i].Date <= calc_out.value.rows[i + 1].Date

\* A table of two banks: the records of the first were given latest first,
\* and the rows as they were appended are not in order of date.
C16_Witness ==
    /\ calc_out # NotCalled
    /\ calc_out.kind = "value"
    /\ Len(calc_in.order) = 2
    /\ LET given == calc_in.at[calc_in.order[1]]
           appended == all_metrics(calc_in)
       IN /\ Len(given) = 2
          /\ given[1].REPDTE > given[2].REPDTE
          /\ \E i \in 1..(Len(appended) - 1) : appended[i].at.Date > appended[i + 1].at.Date

\* The position of x in a sequence that holds it.
PosIn(seq, x) == CHOOSE i \in DOMAIN seq : seq[i] = x

Range(seq) == {seq[i] : i \in DOMAIN seq}

\* The display name of a bank: its own name when it has no mapping.
DisplayName(bank) ==
    IF bank \in DOMAIN BANK_NAME_MAPPING THEN BANK_NAME_MAPPING[bank] ELSE bank

\* The columns come in curated order, those outside the curated list after them.
InCuratedOrder(columns) ==
    \A i, j \in DOMAIN columns :
        i < j =>
            /\ columns[j] \in Range(metric_order) => columns[i] \in Range(metric_order)
            /\ (columns[i] \in Range(metric_order) /\ columns[j] \in Range(metric_order))
                  => PosIn(metric_order, columns[i]) < PosIn(metric_order, columns[j])

\* C17: the table get_metrics_data returns has the rows and the set of
\* columns of the calculator's table, no column dropped or duplicated;
\* 'Bank' and 'Date' come first, then the curated columns in curated order,
\* then the others; only the 'Bank' values differ, each replaced by its
\* display name, a name without mapping left as it is.
C17_RenameAndReorderOnly ==
    (UnitDone("service") /\ unit_out.kind = "value") =>
        \E r \in calculate_metrics(unit_in.data.financials_data) :
            /\ r.kind = "value"
            /\ LET out == unit_out.value
                   df == r.value
               IN /\ Range(out.columns) = Range(df.columns)
                  /\ Len(out.columns) = Len(df.columns)
                  /\ \A i, j \in DOMAIN out.columns : out.columns[i] = out.columns[j] => i = j
                  /\ out.columns[1] = "Bank"
                  /\ out.columns[2] = "Date"
                  /\ InCuratedOrder(out.columns)
                  /\ Len(out.rows) = Len(df.rows)
                  /\ \A i \in DOMAIN df.rows :
                        /\ DOMAIN out.rows[i] = DOMAIN df.rows[i]
                        /\ out.rows[i].Bank = DisplayName(df.rows[i].Bank)
                        /\ \A c \in DOMAIN df.rows[i] :
                              c # "Bank" => out.rows[i][c] = df.rows[i][c]

\* A table with a row of a bank that has a display name and a row of a bank
\* that has none.
C17_Witness ==
    /\ UnitDone("service")
    /\ unit_out.kind = "value"
    /\ \E i, j \in DOMAIN unit_out.value.rows :
          /\ unit_out.value.rows[i].Bank = "Goldman Sachs"
          /\ unit_out.value.rows[j].Bank = UnmappedBank
    /\ unit_out.value.columns[3] = "Real Estate Loans to Tier 1 + ACL"

\* The report dates of a list of period records.
DatesOf(records) == [i \in DOMAIN records |-> records[i].REPDTE]

\* C18: the synthetic dataset fetch_data falls back to holds the entities of
\* the roster it was given and no other, each with an institution record
\* and one period record per quarter end within [start_date, end_date].
C18_FallbackCoversRoster ==
    (MissDone /\ path = "fallback" /\ result.kind = "value") =>
        /\ DictKeys(result.value.institutions_data) = RosterNames
        /\ DictKeys(result.value.financials_data) = RosterNames
        /\ \A k \in DictKeys(result.value.financials_data) :
              DatesOf(result.value.financials_data.at[k]) = date_range(start_date, end_date)

\* C19: an entry written under a key is never invalidated: no step of a
\* later call modifies or deletes it, and every later call with its key
\* returns it.
C19_EntryNeverInvalidated ==
    [][ \A p \in CachePaths :
          cache[p].kind = "json" =>
              /\ cache'[p] = cache[p]
              /\ (calls' = calls + 1 /\ CachePath' = p) =>
                    /\ path' = "hit"
                    /\ result' = written[p] ]_vars

\* C20: every failure of a roster item (a lookup that matches nothing, a
\* malformed envelope, a record without NAME or CERT, an exception raised
\* by a lookup) adds one to api_failures, skips the item and goes on with
\* the next one; no item ends the batch.
C20_ItemFailureCounted ==
    [][ /\ (pc = "item" /\ inst_calls' = inst_calls + 1 /\ pc' = "item") =>
              /\ api_failures' = api_failures + 1
              /\ idx' = idx + 1
        /\ (pc = "financials" /\ financials_data' = financials_data) =>
              /\ api_failures' = api_failures + 1
              /\ idx' = idx + 1
              /\ pc' = "item"
        /\ pc \in {"item", "financials"} =>
              /\ pc' \in {"item", "financials", "after_loop"}
              /\ result' = NotCalled ]_vars

\* C21: on a miss fetch_data makes at most 3 attempts, each over the whole
\* roster; an attempt follows another only when that one collected no
\* institution, and the loop ends with the first attempt that collected
\* one; the call makes at most 3 x |roster| institution lookups and as many
\* financial lookups, and returns.
C21_BoundedAttempts ==
    /\ [](/\ retry_count < 3
          /\ inst_calls <= 3 * Len(bank_info)
          /\ fin_calls <= 3 * Len(bank_info))
    /\ [][ /\ retry_count' = retry_count + 1 =>
                 /\ pc = "item"
                 /\ idx > Len(bank_info)
                 /\ ~Truthy(institutions_data)
                 /\ idx' = 1
           /\ (pc = "item" /\ idx > Len(bank_info) /\ Truthy(institutions_data)) =>
                 pc' = "after_loop"
           /\ (pc = "item" /\ idx <= Len(bank_info)) =>
                 (idx' = idx + 1 \/ (idx' = idx /\ pc' = "financials")) ]_vars
    /\ (pc = "item") ~> (pc = "returned")

\* A call over the three-item roster whose first attempt collected nothing
\* and whose second attempt collected an institution: it has returned after
\* two attempts.
C21_Witness ==
    /\ pc = "returned"
    /\ Len(bank_info) = 3
    /\ retry_count = 1
    /\ Truthy(institutions_data)
    /\ inst_calls = 2 * Len(bank_info)

\* C22: on every miss fetch_data writes exactly the dataset it returns
\* under its key before it returns, in one write; a hit writes nothing.
C22_WritesWhatItReturns ==
    /\ MissDone =>
          /\ cache_writes = 1
          /\ cache[CachePath] = JsonFile(json_dump(result.value))
    /\ (FetchDone /\ path = "hit") => cache_writes = 0

\* C22 (amended): on every miss fetch_data calls save_to_cache once, with
\* the dataset it returns, before it returns; when that write succeeds the
\* file under its key holds exactly that dataset, and when it fails after
\* open() the file is left truncated.  A hit writes nothing.
C22_SavesWhatItReturns ==
    /\ MissDone =>
          /\ result.kind = "value"
          /\ cache_writes = 1
          /\ write_outcome \in WriteOutcomes
          /\ write_outcome = "ok" =>
                /\ cache[CachePath] = JsonFile(json_dump(result.value))
                /\ written[CachePath] = result
          /\ write_outcome = "write_fails" => cache[CachePath] = Garbage
    /\ (FetchDone /\ path = "hit") => (cache_writes = 0 /\ write_outcome = "none")
    /\ pc \in {"item", "financials", "after_loop"} => cache_writes = 0

\* A miss that fell back and saved the synthetic dataset it returned.
C22_Witness ==
    /\ MissDone
    /\ path = "fallback"
    /\ write_outcome = "ok"
    /\ cache_writes = 1
    /\ cache[CachePath] = JsonFile(json_dump(result.value))

\* The records of a list dated d or earlier: with distinct dates, as many
\* as the position of the record dated d in the date-sorted list.
UpTo(records, d) == {i \in DOMAIN records : records[i].REPDTE <= d}

\* The record at position k (from 1) of the date-sorted list.
Nth(records, k) ==
    records[CHOOSE i \in DOMAIN records : Cardinality(UpTo(records, records[i].REPDTE)) = k]

\* C23: the growth rate of the record at position i (from 0) of a bank's
\* date-sorted list is None for i < 12, and for i >= 12 it compares the
\* aggregate of the record with that of the record at position i - 12 of
\* the same bank (None when that one is not above the floor), whatever the
\* dates of the two and whatever the records of another bank.
C23_PositionalLookback ==
    (UnitDone("table") /\ unit_out.kind = "value") =>
        \A k \in DOMAIN unit_out.value.rows :
            LET row == unit_out.value.rows[k]
                own == unit_in.financials_data.at[row.Bank]
                i == Cardinality(UpTo(own, row.Date)) - 1
                current == CreAggregate(Nth(own, i + 1))
                old == IF i >= 12 THEN CreAggregate(Nth(own, i + 1 - 12)) ELSE 0
            IN row[GrowthRate] =
                  IF i >= 12 /\ old > 1000
                  THEN Mul(Sub(Div(Num(current, 1), Num(old, 1)), Num(1, 1)), Num(100, 1))
                  ELSE None

\* A table of two banks: the first has 13 records with a year missing after
\* the first one, and its last row has the rate over the first record,
\* four years back; the second has two records and no rate.
C23_Witness ==
    /\ UnitDone("table")
    /\ unit_out.kind = "value"
    /\ Len(unit_in.financials_data.order) = 2
    /\ Len(unit_in.financials_data.at[OtherBank]) = 2
    /\ \E k \in DOMAIN unit_out.value.rows :
          /\ unit_out.value.rows[k].Bank = UnitBank
          /\ unit_out.value.rows[k].Date = Quarters(LOOKBACK + 5)[LOOKBACK + 5]
          /\ unit_out.value.rows[k][GrowthRate] = Num(50, 1)
    /\ \A k \in DOMAIN unit_out.value.rows :
          unit_out.value.rows[k].Bank = OtherBank => unit_out.value.rows[k][GrowthRate] = None

\* C24: when two processes call fetch_data concurrently with the same
\* uncached key, neither call surfaces an error and each returns a dataset
\* holding both maps; once both have finished, the cache entry under the key
\* parses and equals the dataset one of the two wrote; and a process that
\* reads the file while the other is writing it takes it for a miss.
RaceDone == \A p \in Procs : race.proc[p].pc = "done"

RaceWriters == {p \in Procs : race.proc[p].data # None}

C24_ConcurrentCallsConverge ==
    /\ [](race # NotCalled =>
            /\ \A p \in Procs :
                 race.proc[p].pc = "done" =>
                    /\ race.proc[p].result.kind = "value"
                    /\ race.proc[p].result.value \in RaceDatasets
            /\ RaceDone =>
                 /\ FileRead(race.file).kind = "json"
                 /\ \E p \in RaceWriters :
                      json_load(FileRead(race.file).text) = race.proc[p].data)
    /\ [][\A p, q \in Procs :
            (/\ race # NotCalled
             /\ race.proc[p].pc = "load"
             /\ race.proc[q].pc = "write"
             /\ race'.proc[p].pc # "load") => race'.proc[p].pc = "fetch"]_vars

\* C25: the cache is keyed by the exact pair of date strings: two different
\* pairs of YYYYMMDD dates have different cache paths; a call with key k
\* changes no file but that of k, and what it returns on a hit is the entry
\* of k, also when another entry covers a range that contains that of k.
KeyDates == {k[i] : k \in Keys, i \in {1, 2}}

C25_KeyedByExactPair ==
    /\ Cardinality({get_cache_path(s, e) : s, e \in KeyDates})
          = Cardinality(KeyDates \X KeyDates)
    /\ [][\A p \in CachePaths :
            p # get_cache_path(start_date', end_date') => cache'[p] = cache[p]]_vars
    /\ [](path = "hit" =>
            /\ cache[CachePath].kind = "json"
            /\ result = Returned(json_load(cache[CachePath].text))
            /\ result = written[CachePath])

\* A call on the narrower range finds the entry of the wider one in the
\* directory, misses, and saves its own entry beside it.
C25_Witness ==
    /\ calls = 2
    /\ MissDone
    /\ << start_date, end_date >> = << 20190101, 20190215 >>
    /\ write_outcome = "ok"
    /\ cache[get_cache_path(20181001, 20190331)].kind = "json"
    /\ cache[CachePath].kind = "json"
    /\ cache[get_cache_path(20181001, 20190331)] # cache[CachePath]

\* C26: within one fetch_data call api_failures never goes down: a step adds
\* at most one to it, and the retry that clears the two maps leaves it as it
\* is; the test after the loop compares this running total, which can exceed
\* the roster size, with half the roster size, so a last attempt without a
\* failure can still end in the synthetic dataset.
C26_FailuresAccumulate ==
    /\ [][calls' = calls =>
            /\ api_failures' \in {api_failures, api_failures + 1}
            /\ retry_count' # retry_count =>
                 /\ api_failures' = api_failures
                 /\ institutions_data' = EmptyDict
                 /\ financials_data' = EmptyDict]_vars
    /\ [](MissDone =>
            (path = "fallback" <=>
                (api_failures > Len(bank_info) \div 2 \/ ~Truthy(institutions_data))))

\* Two attempts in which every lookup raised, then a third that collected an
\* institution without a failure: the total decides.
C26_Witness ==
    /\ MissDone
    /\ path = "fallback"
    /\ retry_count = 2
    /\ Truthy(institutions_data)
    /\ Truthy(financials_data)
    /\ api_failures = 2 * Len(bank_info)
    /\ api_failures > Len(bank_info)

\* C27: throughout a fetch_data call that missed the cache, and in the
\* dataset it returns, every key of the financials map is a key of the
\* institutions map: a key enters the financials map only when the
\* institutions map already holds it, and a retry empties both maps.
C27_FinancialsWithinInstitutions ==
    /\ [](DictKeys(financials_data) \subseteq DictKeys(institutions_data))
    /\ [](MissDone /\ result.kind = "value" =>
            DictKeys(result.value.financials_data)
                \subseteq DictKeys(result.value.institutions_data))
    /\ [][calls' = calls =>
            /\ DictKeys(financials_data') \ DictKeys(financials_data)
                  \subseteq DictKeys(institutions_data)
            /\ (institutions_data' = EmptyDict /\ institutions_data # EmptyDict)
                  => financials_data' = EmptyDict]_vars

\* A returned live dataset with an institution whose financial history
\* could not be fetched, next to one with its history.
C27_Witness ==
    /\ MissDone
    /\ path = "live"
    /\ result.kind = "value"
    /\ DictKeys(result.value.financials_data) # {}
    /\ DictKeys(result.value.financials_data) # DictKeys(result.value.institutions_data)

\* The synthetic dataset of the running call's key.
FallbackOfKey == generate_fallback_data(start_date, end_date)

\* Roster items fetch_data looks up: bank names and dicts with a 'cert'.
LookedUp ==
    {i \in DOMAIN bank_info : IsByName(bank_info[i]) \/ IsByCert(bank_info[i])}

\* C28: when every remote call of a fetch_data that missed the cache fails
\* at the transport level, the call makes exactly 3 attempts with one
\* institution lookup per roster item and no financial lookup in each,
\* api_failures stays 0, and the call eventually returns the synthetic
\* dataset, which is then the cache entry of its key.
C28_TotalOutage ==
    /\ [](outage => api_failures = 0 /\ fin_calls = 0)
    /\ [](outage /\ MissDone =>
            /\ retry_count = 2
            /\ inst_calls = 3 * Len(bank_info)
            /\ path = "fallback"
            /\ result = Returned(FallbackOfKey)
            /\ cache_writes = 1
            /\ cache[CachePath] = JsonFile(json_dump(FallbackOfKey)))
    /\ (pc = "item" /\ outage) ~> (FetchDone \/ ~outage)

\* C28 (amended): as above, with one institution lookup in each attempt per
\* roster item that is a name or a dict with a 'cert' (other items are
\* skipped without a lookup), and with the synthetic dataset written to the
\* cache by one save_to_cache call, whose entry is in the cache unless the
\* write failed.
C28_TotalOutageLookedUp ==
    /\ [](outage => api_failures = 0 /\ fin_calls = 0)
    /\ [](outage /\ pc \in {"item", "after_loop"} =>
            inst_calls = retry_count * Cardinality(LookedUp)
                         + Cardinality({i \in LookedUp : i < idx}))
    /\ [](outage /\ MissDone =>
            /\ retry_count = 2
            /\ inst_calls = 3 * Cardinality(LookedUp)
            /\ path = "fallback"
            /\ result = Returned(FallbackOfKey)
            /\ cache_writes = 1
            /\ write_outcome \in WriteOutcomes
            /\ write_outcome = "ok" => cache[CachePath] = JsonFile(json_dump(FallbackOfKey)))
    /\ (pc = "item" /\ outage) ~> (FetchDone \/ ~outage)

\* Nine failed lookups for the three banks of BANK_INFO, then the synthetic
\* dataset in the cache.
C28_Witness ==
    /\ outage
    /\ MissDone
    /\ bank_info = BANK_INFO
    /\ inst_calls = 9
    /\ write_outcome = "ok"
    /\ cache[CachePath] = JsonFile(json_dump(result.value))

\* The rows of a table that belong to one bank, in the order of the table.
EntityRows(df, bank) == SelectSeq(df.rows, LAMBDA row : row.Bank = bank)

DistinctDates(records) ==
    \A i, j \in DOMAIN records : i # j => records[i].REPDTE # records[j].REPDTE

\* Other orders of one record list: by ascending date, back to front, and
\* with the first record moved to the end.
Shuffles(records) ==
    IF records = << >> THEN {records}
    ELSE {[k \in DOMAIN records |-> Nth(records, k)], Reversed(records),
          Tail(records) \o << Head(records) >>}

\* C29: calculate_metrics sorts the records of each bank by report date
\* before it walks them and leaves its argument as it was: for a bank whose
\* records have distinct dates, the rows of the bank in the table are the
\* same whatever the order of its input list, and after the call the input
\* lists hold the same records in the same order.
C29_InputOrderIrrelevant ==
    /\ []((UnitDone("table") /\ unit_out.kind = "value") =>
            \A bank \in DictKeys(unit_in.financials_data) :
                LET records == unit_in.financials_data.at[bank]
                IN DistinctDates(records) =>
                     \A other \in Shuffles(records) :
                        {EntityRows(t.value, bank) :
                            t \in calculate_metrics(
                                     [unit_in.financials_data EXCEPT !.at[bank] = other])}
                        = {EntityRows(unit_out.value, bank)})
    /\ [][unit_in.fn = "table" => unit_in' = unit_in]_vars

\* Thirteen quarterly records given latest first: the table has them in
\* ascending order, with the growth rate in the last row.
C29_Witness ==
    /\ UnitDone("table")
    /\ unit_out.kind = "value"
    /\ unit_in.financials_data.order = << UnitBank >>
    /\ Len(UnitRecords) = 13
    /\ UnitRecords[1].REPDTE > UnitRecords[13].REPDTE
    /\ unit_out.value.rows[13][GrowthRate] # None
    /\ unit_out.value.rows[13].Date = UnitRecords[1].REPDTE

BanksIn(df) == {df.rows[i].Bank : i \in DOMAIN df.rows}

DatesIn(df) == {df.rows[i].Date : i \in DOMAIN df.rows}

DisplayNames == {BANK_NAME_MAPPING[n] : n \in DOMAIN BANK_NAME_MAPPING}

\* The quarter ends of 2000 to 2024.
SampleQuarters == {y * 10000 + q : y \in 2000..2024, q \in {331, 630, 930, 1231}}

\* C30: whatever get_metrics_data returned or raised, the table main gives
\* to DashboardBuilder has rows, and its 'Bank' column holds every display
\* name of BANK_NAME_MAPPING: an exception or an empty table is replaced by
\* the sample table (one row per display name and quarter end), and every
\* display name missing from a table with rows gets one placeholder row for
\* each date of that table, after the rows that were there.
C30_EveryBankInTable ==
    UnitDone("main") =>
        LET got == unit_in.got
            table == unit_out.value
        IN /\ unit_out.kind = "value"
           /\ table.rows # << >>
           /\ DisplayNames \subseteq BanksIn(table)
           /\ IF got.kind = "raised" \/ got.value.rows = << >>
              THEN /\ BanksIn(table) = DisplayNames
                   /\ DatesIn(table) = SampleQuarters
                   /\ Len(table.rows) = Cardinality(DisplayNames) * Cardinality(SampleQuarters)
                   /\ \A b \in DisplayNames, d \in SampleQuarters :
                        \E i \in DOMAIN table.rows :
                            table.rows[i].Bank = b /\ table.rows[i].Date = d
              ELSE LET missing == DisplayNames \ BanksIn(got.value)
                   IN /\ \A i \in DOMAIN got.value.rows :
                            \A c \in DOMAIN got.value.rows[i] :
                                table.rows[i][c] = got.value.rows[i][c]
                      /\ Len(table.rows) =
                            Len(got.value.rows)
                            + Cardinality(missing) * Cardinality(DatesIn(got.value))
                      /\ \A b \in missing, d \in DatesIn(got.value) :
                            \E i \in DOMAIN table.rows :
                                /\ i > Len(got.value.rows)
                                /\ table.rows[i].Bank = b
                                /\ table.rows[i].Date = d
                                /\ table.rows[i]["Total Assets"] = Random

\* get_metrics_data returned rows of one expected bank and of a bank without
\* a display name, at two dates: the two other expected banks get two
\* placeholder rows each.
C30_Witness ==
    /\ UnitDone("main")
    /\ unit_in.got.kind = "value"
    /\ BanksIn(unit_in.got.value) = {"Goldman Sachs", UnmappedBank}
    /\ Cardinality(DatesIn(unit_in.got.value)) = 2
    /\ Len(unit_out.value.rows) = Len(unit_in.got.value.rows) + 4

=============================================================================
